---- MODULE Spec2Model ----
(***************************************************************************)
(* A model of the lexer (src/src/lexer/main.rs, src/src/lexer/parse_ident.rs) *)
(* and of the builder's assignment checks (src/src/builder.rs,             *)
(* src/src/static_environment.rs) of lib-ruby-parser.                      *)
(*                                                                         *)
(* A byte is a one-character string; EOF stands for MaybeByte::EndOfInput. *)
(* Positions are 0-based byte offsets, so the byte at offset i of the      *)
(* input is input[i + 1].                                                  *)
(***************************************************************************)
EXTENDS Integers, Sequences, FiniteSets, TLC

VARIABLES
    lexer,      \* the Lexer object: its fields and those of its Buffer
    tokens,     \* the vector tokenize_until_eof is building
    last,       \* the record of the last yylex call: the token and the state it was made in
    pc,         \* "lexing", "done" (tokenize_until_eof returned), "hung" (a call never
                \* returned), "panicked" (a call panicked)
    builder,    \* the Builder object: static_env, context, max_numparam_stack, diagnostics
    ret         \* the record of the last builder call: its argument, the state before, the result

vars == <<lexer, tokens, last, pc, builder, ret>>

----------------------------------------------------------------------------
(* Bounds of the model. *)

MaxLen == 3
MaxHeredocLen == 5
MaxExtraCalls == 2
MaxBlockDepth == 2

----------------------------------------------------------------------------
(* Bytes. *)

EOF == "EOF"
NULL_CHAR == "NUL"
CTRL_D_CHAR == "^D"
CTRL_Z_CHAR == "^Z"
LF_CHAR == "\f"
VTAB_CHAR == "VT"
NL == "\n"
CR == "\r"
TAB == "\t"
SP == " "
BACKTICK == "U+0060"

Digits == {"0", "1", "2", "3", "4", "5", "6", "7", "8", "9"}
Lower == {"a", "b", "c", "d", "e", "f", "g", "h", "i", "j", "k", "l", "m",
          "n", "o", "p", "q", "r", "s", "t", "u", "v", "w", "x", "y", "z"}
Upper == {"A", "B", "C", "D", "E", "F", "G", "H", "I", "J", "K", "L", "M",
          "N", "O", "P", "Q", "R", "S", "T", "U", "V", "W", "X", "Y", "Z"}

is_space(c) == c \in {SP, TAB, NL, VTAB_CHAR, LF_CHAR, CR}
is_digit(c) == c \in Digits

----------------------------------------------------------------------------
(* Bytes and characters.  An ASCII byte and an ASCII character are the   *)
(* one-character string; a byte from 0x80 on is written "0x80" .. "0xFF" *)
(* and a character beyond ASCII "U+" and its code point in hexadecimal   *)
(* digits, four at least.                                                 *)

HighBytes ==
    <<"0x80", "0x81", "0x82", "0x83", "0x84", "0x85", "0x86", "0x87",
     "0x88", "0x89", "0x8A", "0x8B", "0x8C", "0x8D", "0x8E", "0x8F",
     "0x90", "0x91", "0x92", "0x93", "0x94", "0x95", "0x96", "0x97",
     "0x98", "0x99", "0x9A", "0x9B", "0x9C", "0x9D", "0x9E", "0x9F",
     "0xA0", "0xA1", "0xA2", "0xA3", "0xA4", "0xA5", "0xA6", "0xA7",
     "0xA8", "0xA9", "0xAA", "0xAB", "0xAC", "0xAD", "0xAE", "0xAF",
     "0xB0", "0xB1", "0xB2", "0xB3", "0xB4", "0xB5", "0xB6", "0xB7",
     "0xB8", "0xB9", "0xBA", "0xBB", "0xBC", "0xBD", "0xBE", "0xBF",
     "0xC0", "0xC1", "0xC2", "0xC3", "0xC4", "0xC5", "0xC6", "0xC7",
     "0xC8", "0xC9", "0xCA", "0xCB", "0xCC", "0xCD", "0xCE", "0xCF",
     "0xD0", "0xD1", "0xD2", "0xD3", "0xD4", "0xD5", "0xD6", "0xD7",
     "0xD8", "0xD9", "0xDA", "0xDB", "0xDC", "0xDD", "0xDE", "0xDF",
     "0xE0", "0xE1", "0xE2", "0xE3", "0xE4", "0xE5", "0xE6", "0xE7",
     "0xE8", "0xE9", "0xEA", "0xEB", "0xEC", "0xED", "0xEE", "0xEF",
     "0xF0", "0xF1", "0xF2", "0xF3", "0xF4", "0xF5", "0xF6", "0xF7",
     "0xF8", "0xF9", "0xFA", "0xFB", "0xFC", "0xFD", "0xFE", "0xFF">>

IsHighByte(b) == \E i \in 1..Len(HighBytes) : HighBytes[i] = b
ByteValue(b) == 127 + CHOOSE i \in 1..Len(HighBytes) : HighBytes[i] = b

(* An identifier byte: an ASCII letter or digit, `_`, or a byte of a      *)
(* character beyond ASCII.                                                *)
IsIdentByte(c) == c \in Lower \cup Upper \cup Digits \cup {"_"} \/ IsHighByte(c)

HexDigits == <<"0", "1", "2", "3", "4", "5", "6", "7", "8", "9", "A", "B", "C", "D", "E", "F">>

RECURSIVE Hex(_, _)
Hex(n, width) ==
    IF n = 0 /\ width = 0 THEN ""
    ELSE Hex(n \div 16, IF width = 0 THEN 0 ELSE width - 1) \o HexDigits[(n % 16) + 1]

CodePoint(n) == "U+" \o Hex(n, 4)

ByteIn(bytes, i, lo, hi) ==
    i <= Len(bytes) /\ IsHighByte(bytes[i]) /\ ByteValue(bytes[i]) \in lo..hi

(* The UTF-8 sequence that starts at bytes[i], a byte from 0x80 on: its  *)
(* character, or none and the length of the longest prefix of a          *)
(* sequence, which is what one replacement character stands for.         *)
Utf8At(bytes, i) ==
    LET b == ByteValue(bytes[i])
        n == IF b \in 194..223 THEN 1 ELSE IF b \in 224..239 THEN 2
             ELSE IF b \in 240..244 THEN 3 ELSE 0
        lo == IF b = 224 THEN 160 ELSE IF b = 240 THEN 144 ELSE 128
        hi == IF b = 237 THEN 159 ELSE IF b = 244 THEN 143 ELSE 191
        k == IF n >= 1 /\ ByteIn(bytes, i + 1, lo, hi)
             THEN IF n >= 2 /\ ByteIn(bytes, i + 2, 128, 191)
                  THEN IF n >= 3 /\ ByteIn(bytes, i + 3, 128, 191) THEN 3 ELSE 2
                  ELSE 1
             ELSE 0
        Low(j) == ByteValue(bytes[i + j]) % 64
    IN  IF n = 0 \/ k < n THEN [len |-> 1 + k, char |-> <<>>]
        ELSE IF n = 1 THEN [len |-> 2, char |-> <<CodePoint((b - 192) * 64 + Low(1))>>]
        ELSE IF n = 2
        THEN [len |-> 3, char |-> <<CodePoint((b - 224) * 4096 + Low(1) * 64 + Low(2))>>]
        ELSE [len |-> 4,
              char |-> <<CodePoint((b - 240) * 262144 + Low(1) * 4096 + Low(2) * 64 + Low(3))>>]

(* The characters of the bytes from i on; an invalid sequence becomes    *)
(* `invalid`: one replacement character, or nothing.                      *)
RECURSIVE Utf8Decode(_, _, _)
Utf8Decode(bytes, i, invalid) ==
    LET Sequence(u) ==
            (IF u.char # <<>> THEN u.char ELSE invalid)
                \o Utf8Decode(bytes, i + u.len, invalid)
    IN  IF i > Len(bytes) THEN <<>>
        ELSE IF ~IsHighByte(bytes[i]) THEN <<bytes[i]>> \o Utf8Decode(bytes, i + 1, invalid)
        ELSE Sequence(Utf8At(bytes, i))

from_utf8_lossy(input) == Utf8Decode(input, 1, <<"U+FFFD">>)

(* String::from_utf8 succeeds: no byte is outside a UTF-8 sequence.       *)
is_utf8(bytes) ==
    LET Decoded(chars) == \A i \in 1..Len(chars) : chars[i] # "invalid"
    IN  Decoded(Utf8Decode(bytes, 1, <<"invalid">>))

(* The characters with the Unicode property Uppercase beyond ASCII, as   *)
(* ranges of code points (Unicode 17.0.0).                                *)
UppercaseRanges ==
    {<<192, 214>>, <<216, 222>>, <<256, 256>>, <<258, 258>>, <<260, 260>>,
     <<262, 262>>, <<264, 264>>, <<266, 266>>, <<268, 268>>, <<270, 270>>,
     <<272, 272>>, <<274, 274>>, <<276, 276>>, <<278, 278>>, <<280, 280>>,
     <<282, 282>>, <<284, 284>>, <<286, 286>>, <<288, 288>>, <<290, 290>>,
     <<292, 292>>, <<294, 294>>, <<296, 296>>, <<298, 298>>, <<300, 300>>,
     <<302, 302>>, <<304, 304>>, <<306, 306>>, <<308, 308>>, <<310, 310>>,
     <<313, 313>>, <<315, 315>>, <<317, 317>>, <<319, 319>>, <<321, 321>>,
     <<323, 323>>, <<325, 325>>, <<327, 327>>, <<330, 330>>, <<332, 332>>,
     <<334, 334>>, <<336, 336>>, <<338, 338>>, <<340, 340>>, <<342, 342>>,
     <<344, 344>>, <<346, 346>>, <<348, 348>>, <<350, 350>>, <<352, 352>>,
     <<354, 354>>, <<356, 356>>, <<358, 358>>, <<360, 360>>, <<362, 362>>,
     <<364, 364>>, <<366, 366>>, <<368, 368>>, <<370, 370>>, <<372, 372>>,
     <<374, 374>>, <<376, 377>>, <<379, 379>>, <<381, 381>>, <<385, 386>>,
     <<388, 388>>, <<390, 391>>, <<393, 395>>, <<398, 401>>, <<403, 404>>,
     <<406, 408>>, <<412, 413>>, <<415, 416>>, <<418, 418>>, <<420, 420>>,
     <<422, 423>>, <<425, 425>>, <<428, 428>>, <<430, 431>>, <<433, 435>>,
     <<437, 437>>, <<439, 440>>, <<444, 444>>, <<452, 452>>, <<455, 455>>,
     <<458, 458>>, <<461, 461>>, <<463, 463>>, <<465, 465>>, <<467, 467>>,
     <<469, 469>>, <<471, 471>>, <<473, 473>>, <<475, 475>>, <<478, 478>>,
     <<480, 480>>, <<482, 482>>, <<484, 484>>, <<486, 486>>, <<488, 488>>,
     <<490, 490>>, <<492, 492>>, <<494, 494>>, <<497, 497>>, <<500, 500>>,
     <<502, 504>>, <<506, 506>>, <<508, 508>>, <<510, 510>>, <<512, 512>>,
     <<514, 514>>, <<516, 516>>, <<518, 518>>, <<520, 520>>, <<522, 522>>,
     <<524, 524>>, <<526, 526>>, <<528, 528>>, <<530, 530>>, <<532, 532>>,
     <<534, 534>>, <<536, 536>>, <<538, 538>>, <<540, 540>>, <<542, 542>>,
     <<544, 544>>, <<546, 546>>, <<548, 548>>, <<550, 550>>, <<552, 552>>,
     <<554, 554>>, <<556, 556>>, <<558, 558>>, <<560, 560>>, <<562, 562>>,
     <<570, 571>>, <<573, 574>>, <<577, 577>>, <<579, 582>>, <<584, 584>>,
     <<586, 586>>, <<588, 588>>, <<590, 590>>, <<880, 880>>, <<882, 882>>,
     <<886, 886>>, <<895, 895>>, <<902, 902>>, <<904, 906>>, <<908, 908>>,
     <<910, 911>>, <<913, 929>>, <<931, 939>>, <<975, 975>>, <<978, 980>>,
     <<984, 984>>, <<986, 986>>, <<988, 988>>, <<990, 990>>, <<992, 992>>,
     <<994, 994>>, <<996, 996>>, <<998, 998>>, <<1000, 1000>>,
     <<1002, 1002>>, <<1004, 1004>>, <<1006, 1006>>, <<1012, 1012>>,
     <<1015, 1015>>, <<1017, 1018>>, <<1021, 1071>>, <<1120, 1120>>,
     <<1122, 1122>>, <<1124, 1124>>, <<1126, 1126>>, <<1128, 1128>>,
     <<1130, 1130>>, <<1132, 1132>>, <<1134, 1134>>, <<1136, 1136>>,
     <<1138, 1138>>, <<1140, 1140>>, <<1142, 1142>>, <<1144, 1144>>,
     <<1146, 1146>>, <<1148, 1148>>, <<1150, 1150>>, <<1152, 1152>>,
     <<1162, 1162>>, <<1164, 1164>>, <<1166, 1166>>, <<1168, 1168>>,
     <<1170, 1170>>, <<1172, 1172>>, <<1174, 1174>>, <<1176, 1176>>,
     <<1178, 1178>>, <<1180, 1180>>, <<1182, 1182>>, <<1184, 1184>>,
     <<1186, 1186>>, <<1188, 1188>>, <<1190, 1190>>, <<1192, 1192>>,
     <<1194, 1194>>, <<1196, 1196>>, <<1198, 1198>>, <<1200, 1200>>,
     <<1202, 1202>>, <<1204, 1204>>, <<1206, 1206>>, <<1208, 1208>>,
     <<1210, 1210>>, <<1212, 1212>>, <<1214, 1214>>, <<1216, 1217>>,
     <<1219, 1219>>, <<1221, 1221>>, <<1223, 1223>>, <<1225, 1225>>,
     <<1227, 1227>>, <<1229, 1229>>, <<1232, 1232>>, <<1234, 1234>>,
     <<1236, 1236>>, <<1238, 1238>>, <<1240, 1240>>, <<1242, 1242>>,
     <<1244, 1244>>, <<1246, 1246>>, <<1248, 1248>>, <<1250, 1250>>,
     <<1252, 1252>>, <<1254, 1254>>, <<1256, 1256>>, <<1258, 1258>>,
     <<1260, 1260>>, <<1262, 1262>>, <<1264, 1264>>, <<1266, 1266>>,
     <<1268, 1268>>, <<1270, 1270>>, <<1272, 1272>>, <<1274, 1274>>,
     <<1276, 1276>>, <<1278, 1278>>, <<1280, 1280>>, <<1282, 1282>>,
     <<1284, 1284>>, <<1286, 1286>>, <<1288, 1288>>, <<1290, 1290>>,
     <<1292, 1292>>, <<1294, 1294>>, <<1296, 1296>>, <<1298, 1298>>,
     <<1300, 1300>>, <<1302, 1302>>, <<1304, 1304>>, <<1306, 1306>>,
     <<1308, 1308>>, <<1310, 1310>>, <<1312, 1312>>, <<1314, 1314>>,
     <<1316, 1316>>, <<1318, 1318>>, <<1320, 1320>>, <<1322, 1322>>,
     <<1324, 1324>>, <<1326, 1326>>, <<1329, 1366>>, <<4256, 4293>>,
     <<4295, 4295>>, <<4301, 4301>>, <<5024, 5109>>, <<7305, 7305>>,
     <<7312, 7354>>, <<7357, 7359>>, <<7680, 7680>>, <<7682, 7682>>,
     <<7684, 7684>>, <<7686, 7686>>, <<7688, 7688>>, <<7690, 7690>>,
     <<7692, 7692>>, <<7694, 7694>>, <<7696, 7696>>, <<7698, 7698>>,
     <<7700, 7700>>, <<7702, 7702>>, <<7704, 7704>>, <<7706, 7706>>,
     <<7708, 7708>>, <<7710, 7710>>, <<7712, 7712>>, <<7714, 7714>>,
     <<7716, 7716>>, <<7718, 7718>>, <<7720, 7720>>, <<7722, 7722>>,
     <<7724, 7724>>, <<7726, 7726>>, <<7728, 7728>>, <<7730, 7730>>,
     <<7732, 7732>>, <<7734, 7734>>, <<7736, 7736>>, <<7738, 7738>>,
     <<7740, 7740>>, <<7742, 7742>>, <<7744, 7744>>, <<7746, 7746>>,
     <<7748, 7748>>, <<7750, 7750>>, <<7752, 7752>>, <<7754, 7754>>,
     <<7756, 7756>>, <<7758, 7758>>, <<7760, 7760>>, <<7762, 7762>>,
     <<7764, 7764>>, <<7766, 7766>>, <<7768, 7768>>, <<7770, 7770>>,
     <<7772, 7772>>, <<7774, 7774>>, <<7776, 7776>>, <<7778, 7778>>,
     <<7780, 7780>>, <<7782, 7782>>, <<7784, 7784>>, <<7786, 7786>>,
     <<7788, 7788>>, <<7790, 7790>>, <<7792, 7792>>, <<7794, 7794>>,
     <<7796, 7796>>, <<7798, 7798>>, <<7800, 7800>>, <<7802, 7802>>,
     <<7804, 7804>>, <<7806, 7806>>, <<7808, 7808>>, <<7810, 7810>>,
     <<7812, 7812>>, <<7814, 7814>>, <<7816, 7816>>, <<7818, 7818>>,
     <<7820, 7820>>, <<7822, 7822>>, <<7824, 7824>>, <<7826, 7826>>,
     <<7828, 7828>>, <<7838, 7838>>, <<7840, 7840>>, <<7842, 7842>>,
     <<7844, 7844>>, <<7846, 7846>>, <<7848, 7848>>, <<7850, 7850>>,
     <<7852, 7852>>, <<7854, 7854>>, <<7856, 7856>>, <<7858, 7858>>,
     <<7860, 7860>>, <<7862, 7862>>, <<7864, 7864>>, <<7866, 7866>>,
     <<7868, 7868>>, <<7870, 7870>>, <<7872, 7872>>, <<7874, 7874>>,
     <<7876, 7876>>, <<7878, 7878>>, <<7880, 7880>>, <<7882, 7882>>,
     <<7884, 7884>>, <<7886, 7886>>, <<7888, 7888>>, <<7890, 7890>>,
     <<7892, 7892>>, <<7894, 7894>>, <<7896, 7896>>, <<7898, 7898>>,
     <<7900, 7900>>, <<7902, 7902>>, <<7904, 7904>>, <<7906, 7906>>,
     <<7908, 7908>>, <<7910, 7910>>, <<7912, 7912>>, <<7914, 7914>>,
     <<7916, 7916>>, <<7918, 7918>>, <<7920, 7920>>, <<7922, 7922>>,
     <<7924, 7924>>, <<7926, 7926>>, <<7928, 7928>>, <<7930, 7930>>,
     <<7932, 7932>>, <<7934, 7934>>, <<7944, 7951>>, <<7960, 7965>>,
     <<7976, 7983>>, <<7992, 7999>>, <<8008, 8013>>, <<8025, 8025>>,
     <<8027, 8027>>, <<8029, 8029>>, <<8031, 8031>>, <<8040, 8047>>,
     <<8120, 8123>>, <<8136, 8139>>, <<8152, 8155>>, <<8168, 8172>>,
     <<8184, 8187>>, <<8450, 8450>>, <<8455, 8455>>, <<8459, 8461>>,
     <<8464, 8466>>, <<8469, 8469>>, <<8473, 8477>>, <<8484, 8484>>,
     <<8486, 8486>>, <<8488, 8488>>, <<8490, 8493>>, <<8496, 8499>>,
     <<8510, 8511>>, <<8517, 8517>>, <<8544, 8559>>, <<8579, 8579>>,
     <<9398, 9423>>, <<11264, 11311>>, <<11360, 11360>>, <<11362, 11364>>,
     <<11367, 11367>>, <<11369, 11369>>, <<11371, 11371>>, <<11373, 11376>>,
     <<11378, 11378>>, <<11381, 11381>>, <<11390, 11392>>, <<11394, 11394>>,
     <<11396, 11396>>, <<11398, 11398>>, <<11400, 11400>>, <<11402, 11402>>,
     <<11404, 11404>>, <<11406, 11406>>, <<11408, 11408>>, <<11410, 11410>>,
     <<11412, 11412>>, <<11414, 11414>>, <<11416, 11416>>, <<11418, 11418>>,
     <<11420, 11420>>, <<11422, 11422>>, <<11424, 11424>>, <<11426, 11426>>,
     <<11428, 11428>>, <<11430, 11430>>, <<11432, 11432>>, <<11434, 11434>>,
     <<11436, 11436>>, <<11438, 11438>>, <<11440, 11440>>, <<11442, 11442>>,
     <<11444, 11444>>, <<11446, 11446>>, <<11448, 11448>>, <<11450, 11450>>,
     <<11452, 11452>>, <<11454, 11454>>, <<11456, 11456>>, <<11458, 11458>>,
     <<11460, 11460>>, <<11462, 11462>>, <<11464, 11464>>, <<11466, 11466>>,
     <<11468, 11468>>, <<11470, 11470>>, <<11472, 11472>>, <<11474, 11474>>,
     <<11476, 11476>>, <<11478, 11478>>, <<11480, 11480>>, <<11482, 11482>>,
     <<11484, 11484>>, <<11486, 11486>>, <<11488, 11488>>, <<11490, 11490>>,
     <<11499, 11499>>, <<11501, 11501>>, <<11506, 11506>>, <<42560, 42560>>,
     <<42562, 42562>>, <<42564, 42564>>, <<42566, 42566>>, <<42568, 42568>>,
     <<42570, 42570>>, <<42572, 42572>>, <<42574, 42574>>, <<42576, 42576>>,
     <<42578, 42578>>, <<42580, 42580>>, <<42582, 42582>>, <<42584, 42584>>,
     <<42586, 42586>>, <<42588, 42588>>, <<42590, 42590>>, <<42592, 42592>>,
     <<42594, 42594>>, <<42596, 42596>>, <<42598, 42598>>, <<42600, 42600>>,
     <<42602, 42602>>, <<42604, 42604>>, <<42624, 42624>>, <<42626, 42626>>,
     <<42628, 42628>>, <<42630, 42630>>, <<42632, 42632>>, <<42634, 42634>>,
     <<42636, 42636>>, <<42638, 42638>>, <<42640, 42640>>, <<42642, 42642>>,
     <<42644, 42644>>, <<42646, 42646>>, <<42648, 42648>>, <<42650, 42650>>,
     <<42786, 42786>>, <<42788, 42788>>, <<42790, 42790>>, <<42792, 42792>>,
     <<42794, 42794>>, <<42796, 42796>>, <<42798, 42798>>, <<42802, 42802>>,
     <<42804, 42804>>, <<42806, 42806>>, <<42808, 42808>>, <<42810, 42810>>,
     <<42812, 42812>>, <<42814, 42814>>, <<42816, 42816>>, <<42818, 42818>>,
     <<42820, 42820>>, <<42822, 42822>>, <<42824, 42824>>, <<42826, 42826>>,
     <<42828, 42828>>, <<42830, 42830>>, <<42832, 42832>>, <<42834, 42834>>,
     <<42836, 42836>>, <<42838, 42838>>, <<42840, 42840>>, <<42842, 42842>>,
     <<42844, 42844>>, <<42846, 42846>>, <<42848, 42848>>, <<42850, 42850>>,
     <<42852, 42852>>, <<42854, 42854>>, <<42856, 42856>>, <<42858, 42858>>,
     <<42860, 42860>>, <<42862, 42862>>, <<42873, 42873>>, <<42875, 42875>>,
     <<42877, 42878>>, <<42880, 42880>>, <<42882, 42882>>, <<42884, 42884>>,
     <<42886, 42886>>, <<42891, 42891>>, <<42893, 42893>>, <<42896, 42896>>,
     <<42898, 42898>>, <<42902, 42902>>, <<42904, 42904>>, <<42906, 42906>>,
     <<42908, 42908>>, <<42910, 42910>>, <<42912, 42912>>, <<42914, 42914>>,
     <<42916, 42916>>, <<42918, 42918>>, <<42920, 42920>>, <<42922, 42926>>,
     <<42928, 42932>>, <<42934, 42934>>, <<42936, 42936>>, <<42938, 42938>>,
     <<42940, 42940>>, <<42942, 42942>>, <<42944, 42944>>, <<42946, 42946>>,
     <<42948, 42951>>, <<42953, 42953>>, <<42955, 42956>>, <<42958, 42958>>,
     <<42960, 42960>>, <<42962, 42962>>, <<42964, 42964>>, <<42966, 42966>>,
     <<42968, 42968>>, <<42970, 42970>>, <<42972, 42972>>, <<42997, 42997>>,
     <<65313, 65338>>, <<66560, 66599>>, <<66736, 66771>>, <<66928, 66938>>,
     <<66940, 66954>>, <<66956, 66962>>, <<66964, 66965>>, <<68736, 68786>>,
     <<68944, 68965>>, <<71840, 71871>>, <<93760, 93791>>, <<93856, 93880>>,
     <<119808, 119833>>, <<119860, 119885>>, <<119912, 119937>>,
     <<119964, 119964>>, <<119966, 119967>>, <<119970, 119970>>,
     <<119973, 119974>>, <<119977, 119980>>, <<119982, 119989>>,
     <<120016, 120041>>, <<120068, 120069>>, <<120071, 120074>>,
     <<120077, 120084>>, <<120086, 120092>>, <<120120, 120121>>,
     <<120123, 120126>>, <<120128, 120132>>, <<120134, 120134>>,
     <<120138, 120144>>, <<120172, 120197>>, <<120224, 120249>>,
     <<120276, 120301>>, <<120328, 120353>>, <<120380, 120405>>,
     <<120432, 120457>>, <<120488, 120512>>, <<120546, 120570>>,
     <<120604, 120628>>, <<120662, 120686>>, <<120720, 120744>>,
     <<120778, 120778>>, <<125184, 125217>>, <<127280, 127305>>,
     <<127312, 127337>>, <<127344, 127369>>}

Uppercase == UNION {{CodePoint(n) : n \in r[1]..r[2]} : r \in UppercaseRanges}

(* The characters with the Unicode property White_Space beyond ASCII. *)
WhiteSpace ==
    {CodePoint(n) : n \in {133, 160, 5760, 8232, 8233, 8239, 8287, 12288} \cup 8192..8202}

(* char::is_uppercase *)
is_uppercase(ch) == ch \in Upper \cup Uppercase

Min(S) == CHOOSE x \in S : \A y \in S : x <= y

----------------------------------------------------------------------------
(* LexState: a bitset, here the set of the names of its bits. *)

EXPR_BEG == {"BEG"}
EXPR_END == {"END"}
EXPR_ENDARG == {"ENDARG"}
EXPR_ENDFN == {"ENDFN"}
EXPR_ARG == {"ARG"}
EXPR_CMDARG == {"CMDARG"}
EXPR_MID == {"MID"}
EXPR_FNAME == {"FNAME"}
EXPR_DOT == {"DOT"}
EXPR_CLASS == {"CLASS"}
EXPR_LABEL == {"LABEL"}
EXPR_LABELED == {"LABELED"}
EXPR_FITEM == {"FITEM"}
EXPR_ARG_ANY == EXPR_ARG \cup EXPR_CMDARG
EXPR_BEG_ANY == EXPR_BEG \cup EXPR_MID \cup EXPR_CLASS
EXPR_END_ANY == EXPR_END \cup EXPR_ENDARG \cup EXPR_ENDFN

is_some(state, mask) == state \cap mask # {}
is_all(state, mask) == mask \subseteq state
is_beg(state) == is_some(state, EXPR_BEG_ANY \cup EXPR_LABEL \cup EXPR_LABELED \cup EXPR_FITEM)
is_arg(state) == is_some(state, EXPR_ARG_ANY)
is_end(state) == is_some(state, EXPR_END_ANY)
is_after_operator(state) == is_some(state, EXPR_FNAME \cup EXPR_DOT)
is_spacearg(state, c, space_seen) == is_arg(state) /\ space_seen /\ ~is_space(c)
is_label_possible(state, cmd_state) ==
    (is_some(state, EXPR_BEG \cup EXPR_LABEL) /\ ~cmd_state) \/ is_arg(state)

----------------------------------------------------------------------------
(* StackState: a bit stack kept in an integer. *)

StackPush(stack, bit) == stack * 2 + (IF bit THEN 1 ELSE 0)
StackPop(stack) == stack \div 2
StackIsActive(stack) == stack % 2 = 1

----------------------------------------------------------------------------
(* Buffer: the bytes, the current line [pbeg, pend), the cursor pcur, the  *)
(* start ptok of the token being built, the offset `stream` of the next    *)
(* line to read, the staged `nextline` (-1: none).                         *)

NoLine == -1

LineEnd(input, i) ==
    LET nls == {j \in (i + 1)..Len(input) : input[j] = NL}
    IN  IF nls = {} THEN Len(input) ELSE Min(nls)

byte_at(s, i) == IF i >= 0 /\ i < Len(s.input) THEN s.input[i + 1] ELSE EOF

substr_at(s, b, e) ==
    IF b <= e /\ e <= Len(s.input) THEN SubSeq(s.input, b + 1, e) ELSE <<>>

token_flush(s) == [s EXCEPT !.ptok = s.pcur]
set_ptok(s, p) == [s EXCEPT !.ptok = p]
goto_eol(s) == [s EXCEPT !.pcur = s.pend]

InstallLine(s, v) ==
    [s EXCEPT !.pbeg = v, !.pcur = v, !.pend = LineEnd(s.input, v), !.ptok = v,
              !.prevline_end = s.pend, !.nextline = NoLine]

nextline(s) ==
    IF s.nextline # NoLine THEN [st |-> InstallLine(s, s.nextline), eof |-> FALSE]
    ELSE IF s.eofp THEN [st |-> s, eof |-> TRUE]
    ELSE IF s.stream >= Len(s.input)
         THEN [st |-> [s EXCEPT !.eofp = TRUE, !.pcur = s.pend], eof |-> TRUE]
    ELSE [st |-> [InstallLine(s, s.stream) EXCEPT !.stream = LineEnd(s.input, s.stream)],
          eof |-> FALSE]

ReadByte(s) == [st |-> [s EXCEPT !.pcur = s.pcur + 1], c |-> s.input[s.pcur + 1]]

nextc(s) ==
    IF s.pcur = s.pend \/ s.eofp \/ s.nextline # NoLine
    THEN LET Installed(r) == IF r.eof THEN [st |-> r.st, c |-> EOF] ELSE ReadByte(r.st)
         IN  Installed(nextline(s))
    ELSE ReadByte(s)

pushback(s, c) == IF c = EOF THEN s ELSE [s EXCEPT !.pcur = s.pcur - 1]

peek_n(s, c, n) == s.pcur + n < s.pend /\ s.input[s.pcur + n + 1] = c
peek(s, c) == peek_n(s, c, 0)
peekc_n(s, n) == IF s.pcur + n < s.pend THEN s.input[s.pcur + n + 1] ELSE EOF
was_bol(s) == s.pcur = s.pbeg + 1

is_identchar(s) == ~s.eofp /\ s.pcur >= 1 /\ IsIdentByte(byte_at(s, s.pcur - 1))

MatchAt(s, at, word) ==
    /\ at + Len(word) <= s.pend
    /\ \A i \in 1..Len(word) : s.input[at + i] = word[i]

is_word_match(s, word) ==
    /\ MatchAt(s, s.pcur, word)
    /\ LET after == s.pcur + Len(word)
       IN  after = s.pend \/ ~IsIdentByte(s.input[after + 1])

RECURSIVE SkipIndent(_, _)
SkipIndent(s, p) ==
    IF p < s.pend /\ s.input[p + 1] \in {SP, TAB} THEN SkipIndent(s, p + 1) ELSE p

WholeMatchStart(s, indent) == IF indent THEN SkipIndent(s, s.pbeg) ELSE s.pbeg

is_whole_match(s, word, indent) ==
    /\ MatchAt(s, WholeMatchStart(s, indent), word)
    /\ LET after == WholeMatchStart(s, indent) + Len(word)
       IN  \/ after = s.pend
           \/ after + 1 = s.pend /\ s.input[after + 1] = NL
           \/ after + 2 = s.pend /\ s.input[after + 1] = CR /\ s.input[after + 2] = NL

RECURSIVE LookingAtEolFrom(_, _)
LookingAtEolFrom(s, p) ==
    IF p >= s.pend THEN TRUE
    ELSE LET c == s.input[p + 1]
         IN  IF c = NL \/ c = "#" THEN TRUE
             ELSE IF ~is_space(c) THEN FALSE
             ELSE LookingAtEolFrom(s, p + 1)

is_looking_at_eol(s) == LookingAtEolFrom(s, s.pcur)

(* The line that held the newline being returned is the current one at    *)
(* the end of the input and the one before the look-ahead line otherwise; *)
(* the token is placed on its newline byte and the cursor on the first    *)
(* byte not yet returned.                                                 *)
eof_no_decrement(s) ==
    LET e == IF s.eofp THEN s.pend ELSE s.prevline_end
        t == IF e >= 1 /\ s.input[e] = NL THEN e - 1 ELSE s.ptok
    IN  IF s.eofp THEN [s EXCEPT !.ptok = t]
        ELSE [s EXCEPT !.ptok = t, !.pcur = s.pbeg]

----------------------------------------------------------------------------
(* Diagnostics and token values. *)

Diag(level, message, b, e) == [level |-> level, message |-> message, begin |-> b, end |-> e]

warn(s, message, b, e) ==
    [s EXCEPT !.diagnostics = Append(@, Diag("Warning", message, b, e))]

compile_error(s, message, b, e) ==
    [s EXCEPT !.diagnostics = Append(@, Diag("Error", message, b, e))]

yyerror0(s, message) == compile_error(s, message, s.ptok, s.pcur)

set_yylval_id(s, bytes) == [s EXCEPT !.lval = <<bytes>>]

set_state(s, state) == [s EXCEPT !.lex_state = state]

is_lambda_beginning(s) == s.lpar_beg = s.paren_nest

is_lvar_defined(s, name) == name \in s.static_env

is_beg_arg_state(s) == IF is_after_operator(s.lex_state) THEN EXPR_ARG ELSE EXPR_BEG

----------------------------------------------------------------------------
(* One pass of the dispatch loop of parser_yylex ends in a token           *)
(* (Ret), in another pass (Cont), or never (Hang).                         *)

Ret(s, kind) == [st |-> s, kind |-> kind, cont |-> FALSE, space_seen |-> FALSE]
Cont(s, space_seen) == [st |-> s, kind |-> "", cont |-> TRUE, space_seen |-> space_seen]
Hang(s) == Ret(s, "HANG")

warn_balanced(s, op, syn, c, space_seen, last_state) ==
    IF ~is_some(last_state, EXPR_CLASS \cup EXPR_DOT \cup EXPR_FNAME \cup EXPR_ENDFN)
       /\ space_seen /\ ~is_space(c)
    THEN warn(s, <<"AmbiguousOperator", op, syn>>, s.ptok, s.pcur)
    ELSE s

arg_ambiguousMutant(s, c, b, e) == s

arg_ambiguous(s, c, b, e) == warn(s, <<"AmbiguousFirstArgument", c>>, b, e)

(* The numeric scanner: the digit run at the cursor and, after digits, a   *)
(* fraction of a point and digits. It leaves the state of a finished      *)
(* literal, EXPR_END, the state the `.` arm sets again after the same     *)
(* scan of a misplaced fraction (main.rs 743-750).                        *)
RECURSIVE DigitRunEnd(_, _)
DigitRunEnd(s, p) ==
    IF p < s.pend /\ is_digit(s.input[p + 1]) THEN DigitRunEnd(s, p + 1) ELSE p

parse_numeric(s, c) ==
    LET e1 == DigitRunEnd(s, s.pcur)
        frac == c # "." /\ e1 + 1 < s.pend /\ s.input[e1 + 1] = "."
                /\ is_digit(s.input[e1 + 2])
        e2 == IF frac THEN DigitRunEnd(s, e1 + 1) ELSE e1
    IN  Ret([s EXCEPT !.pcur = e2, !.lex_state = EXPR_END],
            IF frac \/ c = "." THEN "tFLOAT" ELSE "tINTEGER")

(* `#` and `\n`: the look-ahead after a newline that ends a statement. *)
RECURSIVE newline_lookahead(_, _)
newline_lookaheadMutant(s, space_seen) ==
    LET Look(a, c) ==
            IF c \in {SP, TAB, LF_CHAR, CR, VTAB_CHAR} THEN newline_lookahead(a, TRUE)
            ELSE IF c = "#" THEN Cont(pushback(a, c), space_seen)
            ELSE IF c \in {"&", "."}
                 THEN IF peek(a, ".") = (c = "&")
                      THEN Cont(pushback(a, c), space_seen)
                      \* nextline = lastline, and the loop goes on: the next nextc
                      \* installs the same line again and the scan comes back here
                      ELSE Hang(a)
            ELSE IF c = EOF
                 THEN Ret([eof_no_decrement(a) EXCEPT !.command_start = TRUE,
                                                      !.lex_state = EXPR_END], "tNL")
            ELSE Ret([eof_no_decrement([a EXCEPT !.nextline = a.pbeg])
                         EXCEPT !.command_start = TRUE, !.lex_state = EXPR_END], "tNL")
        Read(n) == Look(n.st, n.c)
    IN  Read(nextc(s))

newline_lookahead(s, space_seen) ==
    LET Look(a, c) ==
            IF c \in {SP, TAB, LF_CHAR, CR, VTAB_CHAR} THEN newline_lookahead(a, TRUE)
            ELSE IF c = "#" THEN Cont(pushback(a, c), space_seen)
            ELSE IF c \in {"&", "."}
                 THEN IF peek(a, ".") = (c = "&")
                      THEN Cont(pushback(a, c), space_seen)
                      \* nextline = lastline, and the loop goes on: the next nextc
                      \* installs the same line again and the scan comes back here
                      ELSE Hang(a)
            ELSE IF c = EOF
                 THEN Ret([eof_no_decrement(a) EXCEPT !.command_start = TRUE,
                                                      !.lex_state = EXPR_BEG], "tNL")
            ELSE Ret([eof_no_decrement([a EXCEPT !.nextline = a.pbeg])
                         EXCEPT !.command_start = TRUE, !.lex_state = EXPR_BEG], "tNL")
        Read(n) == Look(n.st, n.c)
    IN  Read(nextc(s))

----------------------------------------------------------------------------
(* The decoder (src/src/source/decoder.rs): the encoding a comment names, *)
(* and the decoding of the input in a named encoding.                     *)

HasAt(bytes, i, word) ==
    /\ i + Len(word) - 1 <= Len(bytes)
    /\ \A k \in 1..Len(word) : bytes[i + k - 1] = word[k]

starts_with(bytes, word) == HasAt(bytes, 1, word)

IsBlank(c) == c \in {SP, TAB, CR, VTAB_CHAR, LF_CHAR, NL} \cup WhiteSpace
IsEncodingByte(c) == c \in Lower \cup Upper \cup Digits \cup {"_", "-"}

RECURSIVE SkipBlanks(_, _)
SkipBlanks(line, i) ==
    IF i <= Len(line) /\ IsBlank(line[i]) THEN SkipBlanks(line, i + 1) ELSE i

RECURSIVE RunEnd(_, _)
RunEnd(line, i) ==
    IF i <= Len(line) /\ IsEncodingByte(line[i]) THEN RunEnd(line, i + 1) ELSE i

Suffixes == {<<"-", "u", "n", "i", "x">>, <<"-", "d", "o", "s">>, <<"-", "m", "a", "c">>}

(* The three alternatives of the name in ENCODING_RE, in their order, at  *)
(* byte i: `utf8-mac`; the shortest run that a suffix follows; the        *)
(* longest run. <<>> when none matches.                                   *)
EncodingNameAt(line, i) ==
    LET Chewed == {k \in 1..(RunEnd(line, i) - i) :
                      /\ \A j \in i..(i + k - 1) : IsEncodingByte(line[j])
                      /\ \E suffix \in Suffixes : HasAt(line, i + k, suffix)}
    IN  IF HasAt(line, i, <<"u", "t", "f", "8", "-", "m", "a", "c">>) THEN <<<<"u", "t", "f", "8", "-", "m", "a", "c">>>>
        ELSE IF Chewed # {} THEN <<SubSeq(line, i, i + Min(Chewed) - 1)>>
        ELSE IF RunEnd(line, i) > i THEN <<SubSeq(line, i, RunEnd(line, i) - 1)>>
        ELSE <<>>

(* ENCODING_RE tried at byte i: a blank or `#`, `coding` or `encoding`,   *)
(* blanks, `:` or `=`, blanks, the name.                                  *)
EncodingMatchAt(line, i) ==
    LET Named(j) == IF j <= Len(line) /\ line[j] \in {":", "="}
                    THEN EncodingNameAt(line, SkipBlanks(line, j + 1))
                    ELSE <<>>
        Marked(j) == IF HasAt(line, j, <<"c", "o", "d", "i", "n", "g">>)
                     THEN Named(SkipBlanks(line, j + Len(<<"c", "o", "d", "i", "n", "g">>)))
                     ELSE <<>>
    IN  IF ~(IsBlank(line[i]) \/ line[i] = "#") THEN <<>>
        ELSE IF HasAt(line, i + 1, <<"e", "n">>) /\ Marked(i + 3) # <<>> THEN Marked(i + 3)
        ELSE Marked(i + 1)

(* The leftmost match of ENCODING_RE in the line. *)
ENCODING_RE(line) ==
    LET Starts == {i \in 1..Len(line) : EncodingMatchAt(line, i) # <<>>}
    IN  IF Starts = {} THEN <<>> ELSE EncodingMatchAt(line, Min(Starts))

(* The bytes up to the first newline, and the bytes between the first two. *)
RECURSIVE LineEndFrom(_, _)
LineEndFrom(source, i) ==
    IF i <= Len(source) /\ source[i] # NL THEN LineEndFrom(source, i + 1) ELSE i

first_line(source) == SubSeq(source, 1, LineEndFrom(source, 1) - 1)
second_line(source) ==
    SubSeq(source, LineEndFrom(source, 1) + 1,
           LineEndFrom(source, LineEndFrom(source, 1) + 1) - 1)

UTF_8 == <<"u", "t", "f", "-", "8">>

(* Ok(name) is <<name>>, Err(UnableToRecognizeEncoding) is <<>>. *)
recognize_encoding(source) ==
    LET Scanned(encoding_line) ==
            IF ~starts_with(encoding_line, <<"#">>) THEN <<>>
            ELSE ENCODING_RE(from_utf8_lossy(encoding_line))
    IN  IF source = <<>> THEN <<>>
        ELSE IF starts_with(first_line(source), <<"\\", "x", "e", "f", "\\", "x", "b", "b", "\\", "x", "b", "f">>) THEN <<UTF_8>>
        ELSE IF starts_with(first_line(source), <<"#", "!">>)
             THEN Scanned(second_line(source))
        ELSE Scanned(first_line(source))

(* str::to_uppercase: every character is replaced by its Unicode          *)
(* upper-case mapping, which may be several characters. ToUpperRuns holds *)
(* the characters beyond ASCII mapped to one character, as <<first, last, *)
(* step, offset>>: the code points first, first + step, .., last map to   *)
(* themselves plus offset; ToUpperSpecial holds those mapped to several   *)
(* (Unicode 17.0.0).                                                      *)
LowerCase == <<"a", "b", "c", "d", "e", "f", "g", "h", "i", "j", "k", "l", "m", "n", "o", "p", "q", "r", "s", "t", "u", "v", "w", "x", "y", "z">>
UpperCase == <<"A", "B", "C", "D", "E", "F", "G", "H", "I", "J", "K", "L", "M", "N", "O", "P", "Q", "R", "S", "T", "U", "V", "W", "X", "Y", "Z">>

ToUpperRuns ==
    <<<<181, 181, 1, 743>>, <<224, 246, 1, -32>>, <<248, 254, 1, -32>>,
     <<255, 255, 1, 121>>, <<257, 303, 2, -1>>, <<305, 305, 1, -232>>,
     <<307, 311, 2, -1>>, <<314, 328, 2, -1>>, <<331, 375, 2, -1>>,
     <<378, 382, 2, -1>>, <<383, 383, 1, -300>>, <<384, 384, 1, 195>>,
     <<387, 389, 2, -1>>, <<392, 392, 1, -1>>, <<396, 396, 1, -1>>,
     <<402, 402, 1, -1>>, <<405, 405, 1, 97>>, <<409, 409, 1, -1>>,
     <<410, 410, 1, 163>>, <<411, 411, 1, 42561>>, <<414, 414, 1, 130>>,
     <<417, 421, 2, -1>>, <<424, 424, 1, -1>>, <<429, 429, 1, -1>>,
     <<432, 432, 1, -1>>, <<436, 438, 2, -1>>, <<441, 441, 1, -1>>,
     <<445, 445, 1, -1>>, <<447, 447, 1, 56>>, <<453, 453, 1, -1>>,
     <<454, 454, 1, -2>>, <<456, 456, 1, -1>>, <<457, 457, 1, -2>>,
     <<459, 459, 1, -1>>, <<460, 460, 1, -2>>, <<462, 476, 2, -1>>,
     <<477, 477, 1, -79>>, <<479, 495, 2, -1>>, <<498, 498, 1, -1>>,
     <<499, 499, 1, -2>>, <<501, 501, 1, -1>>, <<505, 543, 2, -1>>,
     <<547, 563, 2, -1>>, <<572, 572, 1, -1>>, <<575, 576, 1, 10815>>,
     <<578, 578, 1, -1>>, <<583, 591, 2, -1>>, <<592, 592, 1, 10783>>,
     <<593, 593, 1, 10780>>, <<594, 594, 1, 10782>>, <<595, 595, 1, -210>>,
     <<596, 596, 1, -206>>, <<598, 599, 1, -205>>, <<601, 601, 1, -202>>,
     <<603, 603, 1, -203>>, <<604, 604, 1, 42319>>, <<608, 608, 1, -205>>,
     <<609, 609, 1, 42315>>, <<611, 611, 1, -207>>, <<612, 612, 1, 42343>>,
     <<613, 613, 1, 42280>>, <<614, 614, 1, 42308>>, <<616, 616, 1, -209>>,
     <<617, 617, 1, -211>>, <<618, 618, 1, 42308>>, <<619, 619, 1, 10743>>,
     <<620, 620, 1, 42305>>, <<623, 623, 1, -211>>, <<625, 625, 1, 10749>>,
     <<626, 626, 1, -213>>, <<629, 629, 1, -214>>, <<637, 637, 1, 10727>>,
     <<640, 640, 1, -218>>, <<642, 642, 1, 42307>>, <<643, 643, 1, -218>>,
     <<647, 647, 1, 42282>>, <<648, 648, 1, -218>>, <<649, 649, 1, -69>>,
     <<650, 651, 1, -217>>, <<652, 652, 1, -71>>, <<658, 658, 1, -219>>,
     <<669, 669, 1, 42261>>, <<670, 670, 1, 42258>>, <<837, 837, 1, 84>>,
     <<881, 883, 2, -1>>, <<887, 887, 1, -1>>, <<891, 893, 1, 130>>,
     <<940, 940, 1, -38>>, <<941, 943, 1, -37>>, <<945, 961, 1, -32>>,
     <<962, 962, 1, -31>>, <<963, 971, 1, -32>>, <<972, 972, 1, -64>>,
     <<973, 974, 1, -63>>, <<976, 976, 1, -62>>, <<977, 977, 1, -57>>,
     <<981, 981, 1, -47>>, <<982, 982, 1, -54>>, <<983, 983, 1, -8>>,
     <<985, 1007, 2, -1>>, <<1008, 1008, 1, -86>>, <<1009, 1009, 1, -80>>,
     <<1010, 1010, 1, 7>>, <<1011, 1011, 1, -116>>, <<1013, 1013, 1, -96>>,
     <<1016, 1016, 1, -1>>, <<1019, 1019, 1, -1>>, <<1072, 1103, 1, -32>>,
     <<1104, 1119, 1, -80>>, <<1121, 1153, 2, -1>>, <<1163, 1215, 2, -1>>,
     <<1218, 1230, 2, -1>>, <<1231, 1231, 1, -15>>, <<1233, 1327, 2, -1>>,
     <<1377, 1414, 1, -48>>, <<4304, 4346, 1, 3008>>,
     <<4349, 4351, 1, 3008>>, <<5112, 5117, 1, -8>>,
     <<7296, 7296, 1, -6254>>, <<7297, 7297, 1, -6253>>,
     <<7298, 7298, 1, -6244>>, <<7299, 7300, 1, -6242>>,
     <<7301, 7301, 1, -6243>>, <<7302, 7302, 1, -6236>>,
     <<7303, 7303, 1, -6181>>, <<7304, 7304, 1, 35266>>,
     <<7306, 7306, 1, -1>>, <<7545, 7545, 1, 35332>>,
     <<7549, 7549, 1, 3814>>, <<7566, 7566, 1, 35384>>,
     <<7681, 7829, 2, -1>>, <<7835, 7835, 1, -59>>, <<7841, 7935, 2, -1>>,
     <<7936, 7943, 1, 8>>, <<7952, 7957, 1, 8>>, <<7968, 7975, 1, 8>>,
     <<7984, 7991, 1, 8>>, <<8000, 8005, 1, 8>>, <<8017, 8023, 2, 8>>,
     <<8032, 8039, 1, 8>>, <<8048, 8049, 1, 74>>, <<8050, 8053, 1, 86>>,
     <<8054, 8055, 1, 100>>, <<8056, 8057, 1, 128>>, <<8058, 8059, 1, 112>>,
     <<8060, 8061, 1, 126>>, <<8112, 8113, 1, 8>>, <<8126, 8126, 1, -7205>>,
     <<8144, 8145, 1, 8>>, <<8160, 8161, 1, 8>>, <<8165, 8165, 1, 7>>,
     <<8526, 8526, 1, -28>>, <<8560, 8575, 1, -16>>, <<8580, 8580, 1, -1>>,
     <<9424, 9449, 1, -26>>, <<11312, 11359, 1, -48>>,
     <<11361, 11361, 1, -1>>, <<11365, 11365, 1, -10795>>,
     <<11366, 11366, 1, -10792>>, <<11368, 11372, 2, -1>>,
     <<11379, 11379, 1, -1>>, <<11382, 11382, 1, -1>>,
     <<11393, 11491, 2, -1>>, <<11500, 11502, 2, -1>>,
     <<11507, 11507, 1, -1>>, <<11520, 11557, 1, -7264>>,
     <<11559, 11559, 1, -7264>>, <<11565, 11565, 1, -7264>>,
     <<42561, 42605, 2, -1>>, <<42625, 42651, 2, -1>>,
     <<42787, 42799, 2, -1>>, <<42803, 42863, 2, -1>>,
     <<42874, 42876, 2, -1>>, <<42879, 42887, 2, -1>>,
     <<42892, 42892, 1, -1>>, <<42897, 42899, 2, -1>>,
     <<42900, 42900, 1, 48>>, <<42903, 42921, 2, -1>>,
     <<42933, 42947, 2, -1>>, <<42952, 42954, 2, -1>>,
     <<42957, 42971, 2, -1>>, <<42998, 42998, 1, -1>>,
     <<43859, 43859, 1, -928>>, <<43888, 43967, 1, -38864>>,
     <<65345, 65370, 1, -32>>, <<66600, 66639, 1, -40>>,
     <<66776, 66811, 1, -40>>, <<66967, 66977, 1, -39>>,
     <<66979, 66993, 1, -39>>, <<66995, 67001, 1, -39>>,
     <<67003, 67004, 1, -39>>, <<68800, 68850, 1, -64>>,
     <<68976, 68997, 1, -32>>, <<71872, 71903, 1, -32>>,
     <<93792, 93823, 1, -32>>, <<93883, 93907, 1, -27>>,
     <<125218, 125251, 1, -34>>>>

ToUpperSpecial ==
    <<<<223, <<83, 83>>>>, <<329, <<700, 78>>>>, <<496, <<74, 780>>>>,
     <<912, <<921, 776, 769>>>>, <<944, <<933, 776, 769>>>>,
     <<1415, <<1333, 1362>>>>, <<7830, <<72, 817>>>>, <<7831, <<84, 776>>>>,
     <<7832, <<87, 778>>>>, <<7833, <<89, 778>>>>, <<7834, <<65, 702>>>>,
     <<8016, <<933, 787>>>>, <<8018, <<933, 787, 768>>>>,
     <<8020, <<933, 787, 769>>>>, <<8022, <<933, 787, 834>>>>,
     <<8064, <<7944, 921>>>>, <<8065, <<7945, 921>>>>,
     <<8066, <<7946, 921>>>>, <<8067, <<7947, 921>>>>,
     <<8068, <<7948, 921>>>>, <<8069, <<7949, 921>>>>,
     <<8070, <<7950, 921>>>>, <<8071, <<7951, 921>>>>,
     <<8072, <<7944, 921>>>>, <<8073, <<7945, 921>>>>,
     <<8074, <<7946, 921>>>>, <<8075, <<7947, 921>>>>,
     <<8076, <<7948, 921>>>>, <<8077, <<7949, 921>>>>,
     <<8078, <<7950, 921>>>>, <<8079, <<7951, 921>>>>,
     <<8080, <<7976, 921>>>>, <<8081, <<7977, 921>>>>,
     <<8082, <<7978, 921>>>>, <<8083, <<7979, 921>>>>,
     <<8084, <<7980, 921>>>>, <<8085, <<7981, 921>>>>,
     <<8086, <<7982, 921>>>>, <<8087, <<7983, 921>>>>,
     <<8088, <<7976, 921>>>>, <<8089, <<7977, 921>>>>,
     <<8090, <<7978, 921>>>>, <<8091, <<7979, 921>>>>,
     <<8092, <<7980, 921>>>>, <<8093, <<7981, 921>>>>,
     <<8094, <<7982, 921>>>>, <<8095, <<7983, 921>>>>,
     <<8096, <<8040, 921>>>>, <<8097, <<8041, 921>>>>,
     <<8098, <<8042, 921>>>>, <<8099, <<8043, 921>>>>,
     <<8100, <<8044, 921>>>>, <<8101, <<8045, 921>>>>,
     <<8102, <<8046, 921>>>>, <<8103, <<8047, 921>>>>,
     <<8104, <<8040, 921>>>>, <<8105, <<8041, 921>>>>,
     <<8106, <<8042, 921>>>>, <<8107, <<8043, 921>>>>,
     <<8108, <<8044, 921>>>>, <<8109, <<8045, 921>>>>,
     <<8110, <<8046, 921>>>>, <<8111, <<8047, 921>>>>,
     <<8114, <<8122, 921>>>>, <<8115, <<913, 921>>>>,
     <<8116, <<902, 921>>>>, <<8118, <<913, 834>>>>,
     <<8119, <<913, 834, 921>>>>, <<8124, <<913, 921>>>>,
     <<8130, <<8138, 921>>>>, <<8131, <<919, 921>>>>,
     <<8132, <<905, 921>>>>, <<8134, <<919, 834>>>>,
     <<8135, <<919, 834, 921>>>>, <<8140, <<919, 921>>>>,
     <<8146, <<921, 776, 768>>>>, <<8147, <<921, 776, 769>>>>,
     <<8150, <<921, 834>>>>, <<8151, <<921, 776, 834>>>>,
     <<8162, <<933, 776, 768>>>>, <<8163, <<933, 776, 769>>>>,
     <<8164, <<929, 787>>>>, <<8166, <<933, 834>>>>,
     <<8167, <<933, 776, 834>>>>, <<8178, <<8186, 921>>>>,
     <<8179, <<937, 921>>>>, <<8180, <<911, 921>>>>, <<8182, <<937, 834>>>>,
     <<8183, <<937, 834, 921>>>>, <<8188, <<937, 921>>>>,
     <<64256, <<70, 70>>>>, <<64257, <<70, 73>>>>, <<64258, <<70, 76>>>>,
     <<64259, <<70, 70, 73>>>>, <<64260, <<70, 70, 76>>>>,
     <<64261, <<83, 84>>>>, <<64262, <<83, 84>>>>,
     <<64275, <<1348, 1350>>>>, <<64276, <<1348, 1333>>>>,
     <<64277, <<1348, 1339>>>>, <<64278, <<1358, 1350>>>>,
     <<64279, <<1348, 1341>>>>>>

(* The character of a code point: an ASCII capital, or U+XXXX.            *)
CharOf(n) == IF n \in 65..90 THEN UpperCase[n - 64] ELSE CodePoint(n)

ToUpper ==
    UNION {{<<CodePoint(ToUpperRuns[i][1] + k * ToUpperRuns[i][3]),
              <<CharOf(ToUpperRuns[i][1] + k * ToUpperRuns[i][3] + ToUpperRuns[i][4])>>>> :
               k \in 0..((ToUpperRuns[i][2] - ToUpperRuns[i][1]) \div ToUpperRuns[i][3])} :
              i \in 1..Len(ToUpperRuns)}
    \cup {<<CodePoint(ToUpperSpecial[i][1]),
            [k \in 1..Len(ToUpperSpecial[i][2]) |-> CharOf(ToUpperSpecial[i][2][k])]>> :
              i \in 1..Len(ToUpperSpecial)}

(* char::to_uppercase *)
char_to_uppercase(c) ==
    IF \E k \in 1..26 : LowerCase[k] = c
    THEN <<UpperCase[CHOOSE k \in 1..26 : LowerCase[k] = c]>>
    ELSE IF \E m \in ToUpper : m[1] = c THEN (CHOOSE m \in ToUpper : m[1] = c)[2]
    ELSE <<c>>

RECURSIVE to_uppercase(_)
to_uppercase(s) ==
    IF s = <<>> THEN <<>> ELSE char_to_uppercase(Head(s)) \o to_uppercase(Tail(s))

(* The three decodings: String::from_utf8_lossy replaces an invalid byte, *)
(* UTF_8 with DecoderTrap::Ignore drops it, KOI8_R maps every byte.       *)
utf_8_decode(input) == Utf8Decode(input, 1, <<>>)
KOI8_R ==
    <<9472, 9474, 9484, 9488, 9492, 9496, 9500, 9508, 9516, 9524,
     9532, 9600, 9604, 9608, 9612, 9616, 9617, 9618, 9619, 8992,
     9632, 8729, 8730, 8776, 8804, 8805, 160, 8993, 176, 178,
     183, 247, 9552, 9553, 9554, 1105, 9555, 9556, 9557, 9558,
     9559, 9560, 9561, 9562, 9563, 9564, 9565, 9566, 9567, 9568,
     9569, 1025, 9570, 9571, 9572, 9573, 9574, 9575, 9576, 9577,
     9578, 9579, 9580, 169, 1102, 1072, 1073, 1094, 1076, 1077,
     1092, 1075, 1093, 1080, 1081, 1082, 1083, 1084, 1085, 1086,
     1087, 1103, 1088, 1089, 1090, 1091, 1078, 1074, 1100, 1099,
     1079, 1096, 1101, 1097, 1095, 1098, 1070, 1040, 1041, 1062,
     1044, 1045, 1060, 1043, 1061, 1048, 1049, 1050, 1051, 1052,
     1053, 1054, 1055, 1071, 1056, 1057, 1058, 1059, 1046, 1042,
     1068, 1067, 1047, 1064, 1069, 1065, 1063, 1066>>
koi8_r_decode(input) ==
    [i \in 1..Len(input) |->
        IF IsHighByte(input[i]) THEN CodePoint(KOI8_R[ByteValue(input[i]) - 127])
        ELSE input[i]]

decode(input, enc) ==
    LET upper == to_uppercase(enc)
    IN IF upper \in {<<"A", "S", "C", "I", "I", "-", "8", "B", "I", "T">>, <<"B", "I", "N", "A", "R", "Y">>}
       THEN [ok |-> TRUE, value |-> from_utf8_lossy(input)]
       ELSE IF upper = <<"U", "T", "F", "-", "8">>
       THEN [ok |-> TRUE, value |-> utf_8_decode(input)]
       ELSE IF upper = <<"K", "O", "I", "8", "-", "R">>
       THEN [ok |-> TRUE, value |-> koi8_r_decode(input)]
       ELSE [ok |-> FALSE, error |-> [type |-> "UnsupportdEncoding", name |-> enc]]

(* decode_input: an explicit encoding is used as given; without one the   *)
(* magic comment decides, and utf-8 when there is none.                   *)
decode_input(input, enc) ==
    LET With(name) ==
            IF decode(input, name).ok
            THEN [ok |-> TRUE, value |-> <<decode(input, name).value, name>>]
            ELSE decode(input, name)
    IN IF enc # <<>> THEN With(enc[1])
       ELSE IF recognize_encoding(input) # <<>> THEN With(recognize_encoding(input)[1])
       ELSE With(UTF_8)

----------------------------------------------------------------------------
(* The magic-comment scan of the comment that starts at the `#` before   *)
(* the cursor. At the top of the file, before any token, a comment that   *)
(* holds `coding` or `encoding`, `:` or `=` and a name sets the encoding  *)
(* of the source, and the scan fails when the decoder does not support    *)
(* the name; anywhere else, and on any other comment, it finds nothing.   *)
(* A supported encoding is named here over ASCII sources only, which      *)
(* every supported decoding leaves as they are.                           *)
magic_comment(s, token_seen) ==
    LET Named(name) ==
            IF token_seen \/ name = <<>> THEN [ok |-> TRUE, found |-> FALSE]
            ELSE [ok |-> decode(<<>>, name[1]).ok, found |-> decode(<<>>, name[1]).ok]
    IN  Named(ENCODING_RE(from_utf8_lossy(<<"#">> \o substr_at(s, s.pcur, s.pend))))

newline_armMutant(s0, c, space_seen, token_seen) ==
    LET mc == magic_comment(s0, token_seen)
        Comment(g) == [g EXCEPT !.comments = Append(@, <<g.ptok, g.pcur>>)]
        Newline(s, cc) ==
            IF c = "#" /\ ~mc.ok
            THEN Ret([s0 EXCEPT !.token_seen = token_seen], "END_OF_INPUT")
            ELSE IF cc \/ is_all(s.lex_state, EXPR_ARG \cup EXPR_LABELED)
                 THEN IF s.in_kwarg
                      THEN Ret([s EXCEPT !.command_start = TRUE, !.lex_state = EXPR_BEG],
                               "tNL")
                      ELSE Cont(s, space_seen)
            ELSE newline_lookahead(s, space_seen)
        Seen(s) ==
            Newline(s, is_some(s.lex_state,
                               EXPR_BEG \cup EXPR_CLASS \cup EXPR_FNAME \cup EXPR_DOT)
                       /\ ~is_some(s.lex_state, EXPR_LABELED))
    IN  Seen([(IF c = "#" THEN Comment(goto_eol([s0 EXCEPT !.token_seen = token_seen]))
               ELSE s0) EXCEPT !.token_seen = token_seen])

newline_arm(s0, c, space_seen, token_seen) ==
    LET mc == magic_comment(s0, token_seen)
        Comment(g) == [g EXCEPT !.comments = Append(@, <<g.ptok, g.pcur>>)]
        Newline(s, cc) ==
            IF c = "#" /\ ~mc.ok
            THEN Ret([s0 EXCEPT !.token_seen = token_seen], "END_OF_INPUT")
            ELSE IF cc \/ is_all(s.lex_state, EXPR_ARG \cup EXPR_LABELED)
                 THEN IF ~cc /\ s.in_kwarg
                      THEN Ret([s EXCEPT !.command_start = TRUE, !.lex_state = EXPR_BEG],
                               "tNL")
                      ELSE Cont(s, space_seen)
            ELSE newline_lookahead(s, space_seen)
        Seen(s) ==
            Newline(s, is_some(s.lex_state,
                               EXPR_BEG \cup EXPR_CLASS \cup EXPR_FNAME \cup EXPR_DOT)
                       /\ ~is_some(s.lex_state, EXPR_LABELED))
    IN  Seen([(IF c = "#" THEN Comment(goto_eol([s0 EXCEPT !.token_seen = token_seen]))
               ELSE s0) EXCEPT !.token_seen = token_seen])

star_arm(s, space_seen, last_state) ==
    LET Operand(two, p, st, c) ==
            IF is_spacearg(st, c, space_seen)
            THEN [st |-> warn(p, IF two THEN <<"DStarInterpretedAsArgPrefix">>
                                        ELSE <<"StarInterpretedAsArgPrefix">>,
                              p.ptok, p.pcur),
                  k |-> IF two THEN "tDSTAR" ELSE "tSTAR"]
            ELSE IF is_beg(st)
            THEN [st |-> p, k |-> IF two THEN "tDSTAR" ELSE "tSTAR"]
            ELSE [st |-> warn_balanced(p, IF two THEN "**" ELSE "*",
                                       "argument prefix", c, space_seen, last_state),
                  k |-> IF two THEN "tPOW" ELSE "tSTAR2"]
        Close(r) == Ret(set_state(r.st, is_beg_arg_state(r.st)), r.k)
        Star(two, a, c, p) ==
            IF c = "="
            THEN Ret(set_state(set_yylval_id(a, IF two THEN <<"*", "*", "=">>
                                                       ELSE <<"*", "=">>),
                               EXPR_BEG), "tOP_ASGN")
            ELSE Close(Operand(two, p, p.lex_state, c))
        Second(n2) == Star(TRUE, n2.st, n2.c, pushback(n2.st, n2.c))
        First(n1) == IF n1.c = "*" THEN Second(nextc(n1.st))
                     ELSE Star(FALSE, n1.st, n1.c, pushback(n1.st, n1.c))
    IN  First(nextc(s))

bang_arm(s) ==
    LET after == is_after_operator(s.lex_state)
        Bang(a, c) ==
            IF after /\ c = "@" THEN Ret(a, "tBANG")
            ELSE IF c = "=" THEN Ret(a, "tNEQ")
            ELSE IF c = "~" THEN Ret(a, "tNMATCH")
            ELSE Ret(pushback(a, c), "tBANG")
        Read(n) == Bang(set_state(n.st, IF after THEN EXPR_ARG ELSE EXPR_BEG), n.c)
    IN  Read(nextc(s))

(* `=begin` ... `=end`: the scan for the line that starts with `=end`. *)
RECURSIVE embedded_document(_, _, _)
embedded_document(s, b, e) ==
    LET End(g) == Cont([g EXCEPT !.comments = Append(@, <<b, g.pcur>>)], FALSE)
        Line(n) ==
            IF n.c = EOF
            THEN Ret(compile_error(n.st, <<"EmbeddedDocumentMeetsEof">>, b, e),
                     "END_OF_INPUT")
            ELSE IF n.c = "=" /\ is_word_match(n.st, <<"e", "n", "d">>)
            THEN End(goto_eol(n.st))
            ELSE embedded_document(pushback(n.st, n.c), b, e)
    IN  Line(nextc(goto_eol(s)))

eq_arm(s, space_seen) ==
    IF was_bol(s) /\ is_word_match(s, <<"b", "e", "g", "i", "n">>)
    THEN LET Doc(r) == IF r.cont THEN Cont(r.st, space_seen) ELSE r
         IN  Doc(embedded_document(goto_eol(s), s.pcur - 1, s.pcur + 5))
    ELSE LET Second(n2) == IF n2.c = "=" THEN Ret(n2.st, "tEQQ")
                           ELSE Ret(pushback(n2.st, n2.c), "tEQ")
             First(n1) ==
                 IF n1.c = "=" THEN Second(nextc(n1.st))
                 ELSE IF n1.c = "~" THEN Ret(n1.st, "tMATCH")
                 ELSE IF n1.c = ">" THEN Ret(n1.st, "tASSOC")
                 ELSE Ret(pushback(n1.st, n1.c), "tEQL")
         IN  First(nextc(set_state(s, is_beg_arg_state(s))))

gt_arm(s) ==
    LET Second(n2) ==
            IF n2.c = "="
            THEN Ret(set_state(set_yylval_id(n2.st, <<">", ">", "=">>), EXPR_BEG),
                     "tOP_ASGN")
            ELSE Ret(pushback(n2.st, n2.c), "tRSHFT")
        First(n1) ==
            IF n1.c = "=" THEN Ret(n1.st, "tGEQ")
            ELSE IF n1.c = ">" THEN Second(nextc(n1.st))
            ELSE Ret(pushback(n1.st, n1.c), "tGT")
    IN  First(nextc(set_state(s, is_beg_arg_state(s))))

amp_arm(s, space_seen, last_state) ==
    LET Close(r) == Ret(set_state(r.st, is_beg_arg_state(r.st)), r.k)
        Prefix(p, c, c1) ==
            IF is_spacearg(p.lex_state, c, space_seen)
            THEN [st |-> IF c # ":" \/ c1 # EOF
                            \/ ~(c1 = "'" \/ c1 = "\"" \/ IsIdentByte(byte_at(p, p.pcur + 1)))
                         THEN warn(p, <<"AmpersandInterpretedAsArgPrefix">>, p.ptok, p.pcur)
                         ELSE p,
                  k |-> "tAMPER"]
            ELSE IF is_beg(p.lex_state) THEN [st |-> p, k |-> "tAMPER"]
            ELSE [st |-> warn_balanced(p, "&", "argument prefix", c, space_seen,
                                       last_state),
                  k |-> "tAMPER2"]
        Operand(p, c) == Close(Prefix(p, c, peekc_n(p, 1)))
        Second(n2) ==
            IF n2.c = "="
            THEN Ret(set_state(set_yylval_id(n2.st, <<"&", "&", "=">>), EXPR_BEG),
                     "tOP_ASGN")
            ELSE Ret(pushback(set_state(n2.st, EXPR_BEG), n2.c), "tANDOP")
        First(n1) ==
            IF n1.c = "&" THEN Second(nextc(n1.st))
            ELSE IF n1.c = "="
            THEN Ret(set_state(set_yylval_id(n1.st, <<"&", "=">>), EXPR_BEG), "tOP_ASGN")
            ELSE IF n1.c = "."
            THEN Ret(set_state(set_yylval_id(n1.st, <<"&", ".">>), EXPR_DOT), "tANDDOT")
            ELSE Operand(pushback(n1.st, n1.c), n1.c)
    IN  First(nextc(s))

pipe_armMutant(s, last_state) ==
    LET Back(p) == IF is_some(last_state, EXPR_BEG) THEN Ret(p, "tPIPE")
                   ELSE Ret(p, "tOROP")
        Second(n2) ==
            IF n2.c = "="
            THEN Ret(set_state(set_yylval_id(n2.st, <<"|", "|", "=">>), EXPR_BEG),
                     "tOP_ASGN")
            ELSE Back(pushback(n2.st, n2.c))
        First(n1) ==
            IF n1.c = "|" THEN Second(nextc(set_state(n1.st, EXPR_BEG)))
            ELSE IF n1.c = "="
            THEN Ret(set_state(set_yylval_id(n1.st, <<"|", "=">>), EXPR_BEG), "tOP_ASGN")
            ELSE Ret(pushback(set_state(n1.st, IF is_after_operator(n1.st.lex_state)
                                               THEN EXPR_ARG
                                               ELSE EXPR_BEG \cup EXPR_LABEL), n1.c),
                     "tPIPE")
    IN  First(nextc(s))

pipe_arm(s, last_state) ==
    LET Back(p) == IF is_some(last_state, EXPR_BEG) THEN Ret(pushback(p, "|"), "tPIPE")
                   ELSE Ret(p, "tOROP")
        Second(n2) ==
            IF n2.c = "="
            THEN Ret(set_state(set_yylval_id(n2.st, <<"|", "|", "=">>), EXPR_BEG),
                     "tOP_ASGN")
            ELSE Back(pushback(n2.st, n2.c))
        First(n1) ==
            IF n1.c = "|" THEN Second(nextc(set_state(n1.st, EXPR_BEG)))
            ELSE IF n1.c = "="
            THEN Ret(set_state(set_yylval_id(n1.st, <<"|", "=">>), EXPR_BEG), "tOP_ASGN")
            ELSE Ret(pushback(set_state(n1.st, IF is_after_operator(n1.st.lex_state)
                                               THEN EXPR_ARG
                                               ELSE EXPR_BEG \cup EXPR_LABEL), n1.c),
                     "tPIPE")
    IN  First(nextc(s))

plus_arm(s, space_seen, last_state) ==
    LET Unary(p, c) == IF c # EOF /\ is_digit(c) THEN parse_numeric(p, "+")
                       ELSE Ret(p, "tUPLUS")
        Binary(p, c) ==
            Ret(warn_balanced(p, "+", "unary operator", c, space_seen, last_state), "tPLUS")
        Plus(a, c) ==
            IF is_after_operator(a.lex_state)
            THEN IF c = "@" THEN Ret(set_state(a, EXPR_ARG), "tUPLUS")
                 ELSE Ret(pushback(set_state(a, EXPR_ARG), c), "tPLUS")
            ELSE IF c = "="
            THEN Ret(set_state(set_yylval_id(a, <<"+", "=">>), EXPR_BEG), "tOP_ASGN")
            ELSE IF is_beg(a.lex_state) \/ is_spacearg(a.lex_state, c, space_seen)
            THEN Unary(pushback(set_state(IF is_beg(a.lex_state) THEN a
                                          ELSE arg_ambiguous(a, "+", a.ptok, a.pcur - 1),
                                          EXPR_BEG), c), c)
            ELSE Binary(pushback(set_state(a, EXPR_BEG), c), c)
        Read(n) == Plus(n.st, n.c)
    IN  Read(nextc(s))

minus_arm(s, space_seen, last_state) ==
    LET Unary(p, c) == IF c # EOF /\ is_digit(c) THEN Ret(p, "tUMINUS_NUM")
                       ELSE Ret(p, "tUMINUS")
        Binary(p, c) ==
            Ret(warn_balanced(p, "-", "unary operator", c, space_seen, last_state),
                "tMINUS")
        Minus(a, c) ==
            IF is_after_operator(a.lex_state)
            THEN IF c = "@" THEN Ret(set_state(a, EXPR_ARG), "tUMINUS")
                 ELSE Ret(pushback(set_state(a, EXPR_ARG), c), "tMINUS")
            ELSE IF c = "="
            THEN Ret(set_state(set_yylval_id(a, <<"-", "=">>), EXPR_BEG), "tOP_ASGN")
            ELSE IF c = ">" THEN Ret(set_state(a, EXPR_ENDFN), "tLAMBDA")
            ELSE IF is_beg(a.lex_state) \/ is_spacearg(a.lex_state, c, space_seen)
            THEN Unary(pushback(set_state(IF is_beg(a.lex_state) THEN a
                                          ELSE arg_ambiguous(a, "-", a.ptok, a.pcur - 1),
                                          EXPR_BEG), c), c)
            ELSE Binary(pushback(set_state(a, EXPR_BEG), c), c)
        Read(n) == Minus(n.st, n.c)
    IN  Read(nextc(s))

dot_arm(s, space_seen, last_state) ==
    LET beg == is_beg(s.lex_state)
        Rejected(err) == Cont(set_ptok(set_state(err, EXPR_END), err.pcur), space_seen)
        Fraction(p1, prev) ==
            Rejected(yyerror0(parse_numeric(p1, ".").st,
                              IF is_digit(prev) THEN <<"FractionAfterNumeric">>
                                                ELSE <<"NoDigitsAfterDot">>))
        Third(a, c) ==
            IF c = "."
            THEN IF s.paren_nest = 0 /\ is_looking_at_eol(a)
                 THEN Ret(warn(a, <<"TripleDotAtEol">>, a.ptok, a.pcur),
                          IF beg THEN "tBDOT3" ELSE "tDOT3")
                 ELSE IF s.lpar_beg >= 0 /\ s.lpar_beg + 1 = s.paren_nest
                         /\ is_some(last_state, EXPR_LABEL)
                 THEN Ret(a, "tDOT3")
                 ELSE Ret(a, IF beg THEN "tBDOT3" ELSE "tDOT3")
            ELSE Ret(pushback(a, c), IF beg THEN "tBDOT2" ELSE "tDOT2")
        Second(n2) == Third(n2.st, n2.c)
        Dot(a, c, p1) ==
            IF c = "." THEN Second(nextc(a))
            ELSE IF c # EOF /\ is_digit(c)
            THEN Fraction(p1, IF p1.pcur - 1 > p1.pbeg THEN byte_at(p1, p1.pcur - 2)
                              ELSE EOF)
            ELSE Ret(set_state(set_yylval_id(p1, <<".">>), EXPR_DOT), "tDOT")
        First(n1) == Dot(n1.st, n1.c, pushback(n1.st, n1.c))
    IN  First(nextc(set_state(s, EXPR_BEG)))

PopStacks(s) == [s EXCEPT !.cond = StackPop(@), !.cmdarg = StackPop(@)]
PushStacks(s) == [s EXCEPT !.cond = StackPush(@, FALSE), !.cmdarg = StackPush(@, FALSE)]

rparen_arm(s) ==
    Ret([PopStacks(s) EXCEPT !.lex_state = EXPR_ENDFN, !.paren_nest = @ - 1], "tRPAREN")

rbrack_arm(s) ==
    Ret([PopStacks(s) EXCEPT !.lex_state = EXPR_END, !.paren_nest = @ - 1], "tRBRACK")

rcurly_armMutant(s) ==
    IF s.brace_nest <= 0
    THEN Ret([s EXCEPT !.brace_nest = @ - 1], "tSTRING_DEND")
    ELSE Ret([PopStacks(s) EXCEPT !.brace_nest = @ - 1, !.lex_state = EXPR_END,
                                  !.paren_nest = @ - 1], "tRCURLY")

rcurly_arm(s) ==
    IF s.brace_nest = 0
    THEN Ret([s EXCEPT !.brace_nest = @ - 1], "tSTRING_DEND")
    ELSE Ret([PopStacks(s) EXCEPT !.brace_nest = @ - 1, !.lex_state = EXPR_END,
                                  !.paren_nest = @ - 1], "tRCURLY")

(* A quote after `:` opens a symbol literal: new_strterm(str_ssym or       *)
(* str_dsym, c, None, None).                                              *)
SymbolLiteral(c) ==
    <<[kind |-> IF c = "'" THEN "str_ssym" ELSE "str_dsym",
       id |-> <<>>, indent |-> FALSE, line |-> 0, resume |-> 0]>>

(* `:` before a quote opens a symbol string, whose scanner is no part of  *)
(* the model: the inputs hold no quote.                                   *)
colon_arm(s, space_seen, last_state) ==
    LET Colon(a, c) ==
            IF c = ":"
            THEN IF is_beg(a.lex_state) \/ is_some(a.lex_state, EXPR_CLASS)
                    \/ is_spacearg(a.lex_state, EOF, space_seen)
                 THEN Ret(set_state(a, EXPR_BEG), "tCOLON3")
                 ELSE Ret(set_state(set_yylval_id(a, <<":", ":">>), EXPR_DOT), "tCOLON2")
            ELSE IF is_end(a.lex_state) \/ is_space(c) \/ c = "#"
            THEN Ret(set_state(warn_balanced(pushback(a, c), ":", "symbol literal", c,
                                             space_seen, last_state), EXPR_BEG), "tCOLON")
            ELSE IF c \in {"'", "\""}
            THEN Ret([set_state(a, EXPR_FNAME) EXCEPT !.strterm = SymbolLiteral(c)], "tSYMBEG")
            ELSE Ret(set_state(pushback(a, c), EXPR_FNAME), "tSYMBEG")
        Read(n) == Colon(n.st, n.c)
    IN  Read(nextc(s))

(* The literal `/` opens: new_strterm(str_regexp, b'/', None, None). *)
RegexpLiteral ==
    <<[kind |-> "regexp", id |-> <<>>, indent |-> FALSE, line |-> 0, resume |-> 0]>>

slash_armMutant(s, space_seen, last_state) ==
    IF is_beg(s.lex_state)
    THEN Ret([s EXCEPT !.strterm = RegexpLiteral], "tREGEXP_BEG")
    ELSE LET Divide(p, c) ==
                 IF is_spacearg(p.lex_state, c, space_seen)
                 THEN Ret([arg_ambiguous(p, "/", p.ptok, p.pcur)
                              EXCEPT !.strterm = RegexpLiteral], "tREGEXP_BEG")
                 ELSE Ret(warn_balanced(set_state(p, EXPR_BEG), "/",
                                        "regexp literal", c, space_seen, last_state),
                          "tDIVIDE")
             Read(n) ==
                 IF n.c = "="
                 THEN Ret(set_state(set_yylval_id(n.st, <<"/", "=">>), EXPR_BEG),
                          "tOP_ASGN")
                 ELSE Divide(pushback(n.st, n.c), n.c)
         IN  Read(nextc(s))

slash_arm(s, space_seen, last_state) ==
    IF is_beg(s.lex_state)
    THEN Ret([s EXCEPT !.strterm = RegexpLiteral], "tREGEXP_BEG")
    ELSE LET Divide(p, c) ==
                 IF is_spacearg(p.lex_state, c, space_seen)
                 THEN Ret([arg_ambiguous(p, "/", p.ptok, p.pcur)
                              EXCEPT !.strterm = RegexpLiteral], "tREGEXP_BEG")
                 ELSE Ret(warn_balanced(set_state(p, is_beg_arg_state(p)), "/",
                                        "regexp literal", c, space_seen, last_state),
                          "tDIVIDE")
             Read(n) ==
                 IF n.c = "="
                 THEN Ret(set_state(set_yylval_id(n.st, <<"/", "=">>), EXPR_BEG),
                          "tOP_ASGN")
                 ELSE Divide(pushback(n.st, n.c), n.c)
         IN  Read(nextc(s))

caret_arm(s) ==
    LET Read(n) ==
            IF n.c = "="
            THEN Ret(set_state(set_yylval_id(n.st, <<"^", "=">>), EXPR_BEG), "tOP_ASGN")
            ELSE Ret(pushback(set_state(n.st, is_beg_arg_state(n.st)), n.c), "tCARET")
    IN  Read(nextc(s))

semi_arm(s) == Ret([s EXCEPT !.lex_state = EXPR_BEG, !.command_start = TRUE], "tSEMI")

comma_arm(s) == Ret(set_state(s, EXPR_BEG \cup EXPR_LABEL), "tCOMMA")

tilde_arm(s) ==
    IF is_after_operator(s.lex_state)
    THEN LET Read(n) ==
                 Ret(set_state(IF n.c # "@" THEN pushback(n.st, n.c) ELSE n.st, EXPR_ARG),
                     "tTILDE")
         IN  Read(nextc(s))
    ELSE Ret(set_state(s, EXPR_BEG), "tTILDE")

lparen_arm(s, space_seen) ==
    LET st == s.lex_state
        result == IF is_beg(st) THEN "tLPAREN"
                  ELSE IF ~space_seen THEN "tLPAREN2"
                  ELSE IF is_arg(st) \/ is_all(st, EXPR_END \cup EXPR_LABEL) THEN "tLPAREN_ARG"
                  ELSE "tLPAREN2"
        w == IF ~is_beg(st) /\ space_seen
                /\ ~(is_arg(st) \/ is_all(st, EXPR_END \cup EXPR_LABEL))
                /\ is_some(st, EXPR_ENDFN) /\ ~is_lambda_beginning(s)
             THEN warn(s, <<"ParenthesesIterpretedAsArglist">>, s.ptok, s.pcur)
             ELSE s
    IN  Ret([PushStacks(w) EXCEPT !.paren_nest = @ + 1,
                                  !.lex_state = EXPR_BEG \cup EXPR_LABEL], result)

lbrack_arm(s0, space_seen) ==
    LET s == [s0 EXCEPT !.paren_nest = @ + 1]
        st == s0.lex_state
        Second(n2) == IF n2.c = "=" THEN Ret(n2.st, "tASET")
                      ELSE Ret(pushback(n2.st, n2.c), "tAREF")
        First(n1) ==
            IF n1.c = "]" THEN Second(nextc(set_state(n1.st, EXPR_ARG)))
            ELSE Ret(set_state(pushback(n1.st, n1.c), EXPR_ARG \cup EXPR_LABEL), "tLBRACK2")
    IN  IF is_after_operator(st)
        THEN First(nextc(s))
        ELSE Ret(PushStacks(set_state(s, EXPR_BEG \cup EXPR_LABEL)),
                 IF is_beg(st) \/ (is_arg(st) /\ (space_seen \/ is_some(st, EXPR_LABELED)))
                 THEN "tLBRACK" ELSE "tLBRACK2")

LbraceKindMutant(s) ==
    IF is_some(s.lex_state, EXPR_LABELED) THEN "tLBRACE"
    ELSE IF is_lambda_beginning(s) THEN "tLAMBEG"
    ELSE IF is_some(s.lex_state, EXPR_ARG_ANY \cup EXPR_END \cup EXPR_ENDFN) THEN "tLCURLY"
    ELSE IF is_some(s.lex_state, EXPR_ENDARG) THEN "tLBRACE_ARG"
    ELSE "tLBRACE"

LbraceKind(s) ==
    IF is_lambda_beginning(s) THEN "tLAMBEG"
    ELSE IF is_some(s.lex_state, EXPR_LABELED) THEN "tLBRACE"
    ELSE IF is_some(s.lex_state, EXPR_ARG_ANY \cup EXPR_END \cup EXPR_ENDFN) THEN "tLCURLY"
    ELSE IF is_some(s.lex_state, EXPR_ENDARG) THEN "tLBRACE_ARG"
    ELSE "tLBRACE"

lbrace_arm(s0) ==
    LET Brace(s, result) ==
            Ret([PushStacks(IF result # "tLBRACE"
                            THEN [s EXCEPT !.command_start = TRUE, !.lex_state = EXPR_BEG]
                            ELSE set_state(s, EXPR_BEG \cup EXPR_LABEL))
                    EXCEPT !.paren_nest = @ + 1], result)
        Nested(s) == Brace(s, LbraceKind(s))
    IN  Nested([s0 EXCEPT !.brace_nest = @ + 1])

backslash_arm(s, space_seen) ==
    LET Escaped(a, c) ==
            IF c = NL THEN Cont(a, TRUE)
            ELSE IF c = SP THEN Ret(a, "tSP")
            ELSE IF c = TAB THEN Ret(a, "tSLASH_T")
            ELSE IF c = LF_CHAR THEN Ret(a, "tSLASH_F")
            ELSE IF c = CR THEN Ret(a, "tSLASH_R")
            ELSE IF c = VTAB_CHAR THEN Ret(a, "tVTAB")
            ELSE Ret(pushback(a, c), "tBACKSLASH")
        Read(n) == Escaped(n.st, n.c)
    IN  Read(nextc(s))

----------------------------------------------------------------------------
(* parse_ident *)

is_label_suffix(s, n) == peek_n(s, ":", n) /\ ~peek_n(s, ":", n + 1)

(* is_var_name: the first character of the name, which the token buffer *)
(* holds as bytes, is not upper case.                                     *)
is_var_name(ident) == Len(ident) > 0 /\ ~is_uppercase(from_utf8_lossy(ident)[1])

(* The keyword table, cut down to the one keyword the inputs can spell. *)
reserved_word(tok) ==
    IF tok = <<"d", "o">>
    THEN <<[id |-> "kDO", modifier_id |-> "kDO", state |-> EXPR_BEG]>>
    ELSE <<>>

(* The token buffer: newtok empties it, tokadd puts a byte in, and tok()  *)
(* is what it holds.                                                      *)
newtok(s) == [s EXCEPT !.tokenbuf = <<>>]
tokadd(s, c) == [s EXCEPT !.tokenbuf = Append(@, c)]

(* tokadd_mbchar: Err at the end of the input, else the byte goes to the  *)
(* buffer.                                                                *)
tokadd_mbchar(s, c) ==
    IF c = EOF THEN [ok |-> FALSE, st |-> s] ELSE [ok |-> TRUE, st |-> tokadd(s, c)]

(* The loop of parse_ident: the byte in hand goes to the buffer, the     *)
(* next one is read, until it is not an identifier byte; err when the     *)
(* byte in hand is the end of the input, and then nothing has changed.    *)
RECURSIVE TokaddIdent(_, _)
TokaddIdent(s, c) ==
    LET Read(n) == IF is_identchar(n.st) THEN TokaddIdent(n.st, n.c)
                   ELSE [st |-> n.st, c |-> n.c, err |-> FALSE]
        Added(r) == IF ~r.ok THEN [st |-> s, c |-> c, err |-> TRUE] ELSE Read(nextc(r.st))
    IN  Added(tokadd_mbchar(s, c))

(* The tag of a heredoc: bytes are read while they are identifier bytes.  *)
RECURSIVE ScanIdent(_)
ScanIdent(s) ==
    LET Read(n) == IF is_identchar(n.st) THEN ScanIdent(n.st) ELSE n
    IN  Read(nextc(s))

DoKindMutant(s, state) ==
    IF StackIsActive(s.cond) THEN Ret(s, "kDO_COND")
    ELSE IF StackIsActive(s.cmdarg) /\ ~is_some(state, EXPR_CMDARG) THEN Ret(s, "kDO_BLOCK")
    ELSE Ret(s, "kDO")

DoKind(s, state) ==
    IF is_lambda_beginning(s) THEN Ret([s EXCEPT !.lpar_beg = -1], "kDO_LAMBDA")
    ELSE IF StackIsActive(s.cond) THEN Ret(s, "kDO_COND")
    ELSE IF StackIsActive(s.cmdarg) /\ ~is_some(state, EXPR_CMDARG) THEN Ret(s, "kDO_BLOCK")
    ELSE Ret(s, "kDO")

Keyword(s, kw, tok) ==
    LET state == s.lex_state
        Started(b) ==
            IF kw.id = "kDO" THEN DoKind(b, state)
            ELSE IF is_some(state, EXPR_BEG \cup EXPR_LABELED) THEN Ret(b, kw.id)
            ELSE Ret(IF kw.id # kw.modifier_id THEN set_state(b, EXPR_BEG \cup EXPR_LABEL)
                     ELSE b,
                     kw.modifier_id)
        Entered(a) ==
            Started(IF is_some(a.lex_state, EXPR_BEG) THEN [a EXCEPT !.command_start = TRUE]
                    ELSE a)
    IN  IF is_some(state, EXPR_FNAME)
        THEN Ret(set_yylval_id(set_state(s, EXPR_ENDFN), tok), kw.id)
        ELSE Entered(set_state(s, kw.state))

Identifier(s, result0, tok, cmd_state, last_state) ==
    LET result == IF result0 = "tCONSTANT" /\ is_var_name(tok) THEN "tIDENTIFIER" ELSE result0
        Named(b) ==
            IF ~is_some(last_state, EXPR_DOT \cup EXPR_FNAME) /\ result = "tIDENTIFIER"
               /\ is_lvar_defined(b, tok)
            THEN Ret(set_state(b, EXPR_END \cup EXPR_LABEL), result)
            ELSE Ret(b, result)
    IN  Named(set_yylval_id(
                  IF is_some(s.lex_state, EXPR_BEG_ANY \cup EXPR_ARG_ANY \cup EXPR_DOT)
                  THEN set_state(s, IF cmd_state THEN EXPR_CMDARG ELSE EXPR_ARG)
                  ELSE IF s.lex_state = EXPR_FNAME THEN set_state(s, EXPR_ENDFN)
                  ELSE set_state(s, EXPR_END),
                  tok))

parse_ident(s0, cmd_state) ==
    LET last_state == s0.lex_state
        Word(s1, result0, tok, kw) ==
            IF is_label_possible(s1.lex_state, cmd_state) /\ is_label_suffix(s1, 0)
            THEN Ret(set_yylval_id(nextc(set_state(s1, EXPR_ARG \cup EXPR_LABELED)).st, tok),
                     "tLABEL")
            ELSE IF ~is_some(s1.lex_state, EXPR_DOT) /\ kw # <<>>
            THEN Keyword(s1, kw[1], tok)
            ELSE Identifier(s1, result0, tok, cmd_state, last_state)
        Looked(s1, result0, tok) == Word(s1, result0, tok, reserved_word(tok))
        Fixed(s1, result0) == Looked(s1, result0, s1.tokenbuf)
        Suffixed(a, c, fid, asg) ==
            Fixed(IF fid \/ asg THEN tokadd(a, c) ELSE pushback(a, c),
                  IF fid THEN "tFID" ELSE IF asg THEN "tIDENTIFIER" ELSE "tCONSTANT")
        Scanned(a, c, fid) ==
            Suffixed(a, c, fid,
                     /\ ~fid
                     /\ c = "="
                     /\ is_some(a.lex_state, EXPR_FNAME)
                     /\ ~peek(a, "~")
                     /\ ~peek(a, ">")
                     /\ (~peek(a, "=") \/ peek_n(a, ">", 1)))
        Read(n) == IF n.err THEN Ret(n.st, "END_OF_INPUT")
                   ELSE Scanned(n.st, n.c, n.c \in {"!", "?"} /\ ~peek(n.st, "="))
    IN  Read(TokaddIdent(s0, byte_at(s0, s0.pcur - 1)))

----------------------------------------------------------------------------
(* Heredocs: the opening `<<ID` parks a HeredocLiteral that remembers the *)
(* opening line and the offset after the tag, and moves the cursor to the *)
(* end of the line; here_document reads the lines that follow and puts    *)
(* the cursor back on the opening line when the body is over.             *)

NoStrTerm == <<>>

HeredocLiteral(id, indent, line, resume) ==
    <<[kind |-> "heredoc", id |-> id, indent |-> indent, line |-> line, resume |-> resume]>>

StringLiteral(heredoc_end) ==
    <<[kind |-> "string", id |-> <<>>, indent |-> FALSE, line |-> heredoc_end[1],
       resume |-> heredoc_end[2]]>>

SetLoc(s, b, e) == [s EXCEPT !.lval_start = <<b>>, !.lval_end = <<e>>]

heredoc_identifier(s) ==
    LET Parked(e, idstart, indent) ==
            [found |-> TRUE,
             st |-> SetLoc([goto_eol(e) EXCEPT
                               !.strterm = HeredocLiteral(substr_at(e, idstart, e.pcur),
                                                          indent, e.pbeg, e.pcur)],
                           e.ptok, e.pcur)]
        Ident(n) == pushback(n.st, n.c)
        Tag(n1, back, indent) ==
            IF ~is_identchar(n1.st)
            THEN [found |-> FALSE, st |-> back]
            ELSE Parked(Ident(ScanIdent(n1.st)), n1.st.pcur - 1, indent)
        Indented(n0, n1) == Tag(n1, pushback(pushback(n1.st, n1.c), n0.c), TRUE)
        First(n0) == IF n0.c \in {"-", "~"} THEN Indented(n0, nextc(n0.st))
                     ELSE Tag(n0, pushback(n0.st, n0.c), FALSE)
    IN  First(nextc(s))

heredoc_restore(s, h) ==
    [s EXCEPT !.pbeg = h.line, !.pend = LineEnd(s.input, h.line), !.pcur = h.resume,
              !.ptok = h.resume, !.eofp = FALSE, !.nextline = NoLine]

HeredocError(s, h) ==
    LET Restored(r) ==
            Ret([compile_error(r, <<"UnterminatedHeredoc", h.id>>, r.ptok, r.pcur)
                    EXCEPT !.strterm = NoStrTerm],
                "END_OF_INPUT")
    IN  Restored(heredoc_restore(s, h))

HeredocEnd(s, h) ==
    LET b == WholeMatchStart(s, h.indent)
    IN  Ret(SetLoc([heredoc_restore(s, h) EXCEPT !.strterm = NoStrTerm,
                                                 !.lex_state = EXPR_END],
                   b, b + Len(h.id)),
            "tSTRING_END")

HeredocContent(s, h, b) ==
    LET t == WholeMatchStart(s, h.indent)
    IN  Ret(SetLoc([heredoc_restore(s, h) EXCEPT
                       !.strterm = StringLiteral(<<t, t + Len(h.id)>>),
                       !.lval = <<substr_at(s, b, s.pbeg)>>],
                   b, s.pbeg),
            "tSTRING_CONTENT")

RECURSIVE HeredocBody(_, _, _)
HeredocBody(s, h, b) ==
    LET Line(n) ==
            IF n.c = EOF THEN HeredocError(n.st, h)
            ELSE IF is_whole_match(n.st, h.id, h.indent) THEN HeredocContent(n.st, h, b)
            ELSE HeredocBody(n.st, h, b)
    IN  Line(nextc(goto_eol(s)))

here_document(s) ==
    LET h == s.strterm[1]
        Line(n) ==
            IF n.c = EOF THEN HeredocError(n.st, h)
            ELSE IF is_whole_match(n.st, h.id, h.indent) THEN HeredocEnd(n.st, h)
            ELSE HeredocBody(n.st, h, n.st.pbeg)
    IN  Line(nextc(s))

(* The only string literal the inputs can open is the one a heredoc body *)
(* leaves behind: its next token is the terminator.                       *)
parse_string(s) ==
    LET lit == s.strterm[1]
    IN  Ret(SetLoc([s EXCEPT !.strterm = NoStrTerm, !.lex_state = EXPR_END],
                   lit.line, lit.resume),
            "tSTRING_END")

lt_arm(s, space_seen, last_state) ==
    LET Second(n2, c) ==
            IF c = "="
            THEN IF n2.c = ">" THEN Ret(n2.st, "tCMP") ELSE Ret(pushback(n2.st, n2.c), "tLEQ")
            ELSE IF n2.c = "="
                 THEN Ret(set_state(set_yylval_id(n2.st, <<"<", "<", "=">>), EXPR_BEG),
                          "tOP_ASGN")
                 ELSE Ret(warn_balanced(pushback(n2.st, n2.c), "<<", "here document", n2.c,
                                        space_seen, last_state), "tLSHFT")
        Operator(b, c) == IF c \in {"=", "<"} THEN Second(nextc(b), c)
                          ELSE Ret(pushback(b, c), "tLT")
        State(a, c) ==
            Operator(IF is_after_operator(a.lex_state) THEN set_state(a, EXPR_ARG)
                     ELSE [a EXCEPT !.command_start = @ \/ is_some(a.lex_state, EXPR_CLASS),
                                    !.lex_state = EXPR_BEG],
                     c)
        Heredoc(h, c) == IF h.found THEN Ret(h.st, "tSTRING_BEG") ELSE State(h.st, c)
        Lt(a, c) ==
            IF /\ c = "<"
               /\ ~is_some(a.lex_state, EXPR_DOT \cup EXPR_CLASS)
               /\ ~is_end(a.lex_state)
               /\ (~is_arg(a.lex_state) \/ is_some(a.lex_state, EXPR_LABELED) \/ space_seen)
            THEN Heredoc(heredoc_identifier(a), c)
            ELSE State(a, c)
        Read(n) == Lt(n.st, n.c)
    IN  Read(nextc(s))

----------------------------------------------------------------------------
(* parser_yylex: one pass of the dispatch loop on the byte c just read.   *)

INVALID_CHAR == "^A"

cr_arm(s) ==
    IF ~s.cr_seen
    THEN warn([s EXCEPT !.cr_seen = TRUE], <<"SlashRAtMiddleOfLine">>, s.ptok, s.pcur)
    ELSE s

underscore_arm(s, cmd_state) ==
    IF was_bol(s) /\ is_whole_match(s, <<"_", "_", "E", "N", "D", "_", "_">>, FALSE)
    THEN Ret([s EXCEPT !.eofp = TRUE], "END_OF_INPUT")
    ELSE parse_ident(newtok(s), cmd_state)

default_arm(s, c, cmd_state, space_seen) ==
    IF ~is_identchar(s)
    THEN Cont(token_flush(compile_error(s, <<"InvalidChar", c>>, s.ptok, s.pcur)), space_seen)
    ELSE parse_ident(newtok(s), cmd_state)

(* new_strterm(func, term, None, None) for the literals that open with a *)
(* quote or with `%`.                                                     *)
new_strterm(func) ==
    <<[kind |-> func, id |-> <<>>, indent |-> FALSE, line |-> 0, resume |-> 0]>>

(* `"` and `'`: a string opens; the label bit says `"a":` may follow. *)
quote_arm(s, c, cmd_state) ==
    LET func == IF c = "'" THEN "str_squote" ELSE "str_dquote"
        label == IF is_label_possible(s.lex_state, cmd_state) THEN "|str_label" ELSE ""
    IN  Ret(set_ptok([s EXCEPT !.strterm = new_strterm(func \o label)], s.pcur - 1),
            "tSTRING_BEG")

backtick_arm(s, cmd_state) ==
    IF is_some(s.lex_state, EXPR_FNAME)
    THEN Ret(set_state(s, EXPR_ENDFN), "tBACK_REF2")
    ELSE IF is_some(s.lex_state, EXPR_DOT)
    THEN Ret(set_state(s, IF cmd_state THEN EXPR_CMDARG ELSE EXPR_ARG), "tBACK_REF2")
    ELSE Ret([s EXCEPT !.strterm = new_strterm("str_xquote")], "tXSTRING_BEG")

(* tokadd_ident: the bytes of an identifier go to the token buffer and   *)
(* the byte after it is put back; true (err) when tokadd_mbchar fails,    *)
(* and then nothing is put back.                                          *)
tokadd_ident(s, c) ==
    LET Back(n) == IF n.err THEN [st |-> n.st, err |-> TRUE]
                   ELSE [st |-> pushback(n.st, n.c), err |-> FALSE]
    IN  Back(TokaddIdent(s, c))

(* `?`: a character literal, or the `?` of the conditional operator. *)
parse_qmark(s, space_seen) ==
    LET Ternary(a) == Ret(set_state(a, EXPR_BEG), "tEH")
        Char(a, c) ==
            Ret(set_state(set_yylval_id(tokadd(newtok(a), c), <<c>>), EXPR_END), "tCHAR")
        Read(n) ==
            IF n.c = EOF
            THEN Ret(compile_error(n.st, <<"IncompleteCharacterSyntax">>,
                                   n.st.ptok, n.st.pcur), "END_OF_INPUT")
            ELSE IF is_space(n.c)
            THEN Ternary(pushback(IF ~is_arg(s.lex_state) /\ n.c \in {SP, TAB, NL, CR}
                                  THEN warn(n.st, <<"InvalidCharacterSyntax", n.c>>,
                                            n.st.ptok, n.st.pcur)
                                  ELSE n.st, n.c))
            ELSE IF IsIdentByte(n.c) /\ n.st.pcur < n.st.pend
                    /\ IsIdentByte(byte_at(n.st, n.st.pcur))
            THEN Ternary(pushback(IF space_seen
                                  THEN warn(n.st, <<"AmbiguousTernaryOperator">>,
                                            n.st.ptok, n.st.pcur)
                                  ELSE n.st, n.c))
            ELSE Char(n.st, n.c)
    IN  IF is_end(s.lex_state) THEN Ternary(s) ELSE Read(nextc(s))

(* `%`: the operator, `%=`, or the opening of a `%`-literal. *)
parse_percent(s, space_seen, last_state) ==
    LET Opened(a, func, kind) == Ret([a EXCEPT !.strterm = new_strterm(func)], kind)
        Typed(a, c) ==
            CASE c = "Q" -> Opened(a, "str_dquote", "tSTRING_BEG")
              [] c = "q" -> Opened(a, "str_squote", "tSTRING_BEG")
              [] c = "W" -> Opened(a, "str_dword", "tWORDS_BEG")
              [] c = "w" -> Opened(a, "str_sword", "tQWORDS_BEG")
              [] c = "I" -> Opened(a, "str_dword", "tSYMBOLS_BEG")
              [] c = "i" -> Opened(a, "str_sword", "tQSYMBOLS_BEG")
              [] c = "x" -> Opened(a, "str_xquote", "tXSTRING_BEG")
              [] c = "r" -> Opened(a, "str_regexp", "tREGEXP_BEG")
              [] c = "s" -> Opened(set_state(a, EXPR_FNAME), "str_ssym", "tSYMBEG")
              [] OTHER -> Ret(yyerror0(a, <<"UnknownTypeOfPercentString">>), "END_OF_INPUT")
        Delimited(n, c) ==
            IF n.c = EOF
            THEN Ret(compile_error(n.st, <<"UnterminatedQuotedString">>,
                                   n.st.ptok, n.st.pcur), "END_OF_INPUT")
            ELSE Typed(n.st, c)
        Quotation(a, c) ==
            IF c = EOF
            THEN Ret(compile_error(a, <<"UnterminatedQuotedString">>, a.ptok, a.pcur),
                     "END_OF_INPUT")
            ELSE IF c \in Lower \cup Upper \cup Digits THEN Delimited(nextc(a), c)
            ELSE Opened(a, "str_dquote", "tSTRING_BEG")
        Operator(n) ==
            IF n.c = "="
            THEN Ret(set_state(set_yylval_id(n.st, <<"%">>), EXPR_BEG), "tOP_ASGN")
            ELSE IF is_spacearg(s.lex_state, n.c, space_seen)
                    \/ (is_some(s.lex_state, EXPR_FITEM) /\ n.c = "s")
            THEN Quotation(n.st, n.c)
            ELSE Ret(warn_balanced(pushback(set_state(n.st, is_beg_arg_state(n.st)), n.c),
                                   <<"%">>, "string literal", n.c, space_seen, last_state),
                     "tPERCENT")
        Began(n) == Quotation(n.st, n.c)
    IN  IF is_beg(s.lex_state) THEN Began(nextc(s)) ELSE Operator(nextc(s))

(* `$`: a global variable, a back reference (`$&`, `$'`, `$+` and the     *)
(* backtick one) or a numbered reference `$1`..; in a method-name         *)
(* position all of them are tGVAR.                                        *)
parse_gvar(s, last_state) ==
    LET Named(a, kind) == Ret(set_yylval_id(a, a.tokenbuf), kind)
        Nth(a, e) ==
            Named([a EXCEPT !.pcur = e,
                            !.tokenbuf = <<"$">> \o substr_at(a, a.pcur - 1, e)],
                  IF is_some(last_state, EXPR_FNAME) THEN "tGVAR" ELSE "tNTH_REF")
        Unnamed(n) ==
            IF n.c = EOF \/ is_space(n.c)
            THEN Ret(compile_error(n.st, <<"GvarWithoutId">>, n.st.ptok, n.st.pcur), "tGVAR")
            ELSE Ret(compile_error(pushback(n.st, n.c), <<"InvalidGvarName", n.c>>,
                                   n.st.ptok, n.st.pcur), "tGVAR")
        Added(r, kind) == IF r.err THEN Ret(r.st, "END_OF_INPUT") ELSE Named(r.st, kind)
        Word(n) ==
            IF ~is_identchar(n.st) THEN Unnamed(n)
            ELSE Added(tokadd_ident(tokadd(set_state(n.st,
                                                     IF is_some(last_state, EXPR_FNAME)
                                                     THEN EXPR_ENDFN ELSE EXPR_END),
                                           "$"), n.c),
                       "tGVAR")
        Dashed(n) ==
            IF is_identchar(n.st) THEN Named(tokadd(n.st, n.c), "tGVAR")
            ELSE Named(pushback(n.st, n.c), "tGVAR")
        Read(n) ==
            CASE n.c \in {"~", "*", "$", "?", "!", "@", "/", "\\", ";", ",", ".", "=",
                          ":", "<", ">", "\""} ->
                   Named(tokadd(tokadd(n.st, "$"), n.c), "tGVAR")
              [] n.c = "-" ->
                   Dashed(nextc(tokadd(tokadd(n.st, "$"), "-")))
              [] n.c \in {"&", BACKTICK, "'", "+"} ->
                   Named(tokadd(tokadd(n.st, "$"), n.c),
                         IF is_some(last_state, EXPR_FNAME) THEN "tGVAR" ELSE "tBACK_REF")
              [] n.c \in Digits \ {"0"} -> Nth(n.st, DigitRunEnd(n.st, n.st.pcur - 1))
              [] OTHER -> Word(n)
    IN  Read(nextc(newtok(set_state(s, EXPR_END))))

(* `@` and `@@`: an instance or a class variable; the name must not be   *)
(* empty and must not start with a digit.                                 *)
parse_atmark(s, last_state) ==
    LET Named(a, kind) == Ret(set_yylval_id(a, a.tokenbuf), kind)
        Added(r, kind) == IF r.err THEN Ret(r.st, "END_OF_INPUT") ELSE Named(r.st, kind)
        Checked(a, c, kind) ==
            IF c = EOF \/ ~is_identchar(a)
            THEN Ret(set_state(compile_error(pushback(a, c),
                                   <<IF kind = "tIVAR" THEN "IvarWithoutId"
                                     ELSE "CvarWithoutId">>, a.ptok, a.pcur),
                               EXPR_END), kind)
            ELSE IF is_digit(c)
            THEN Ret(set_state(compile_error(pushback(a, c),
                                   <<IF kind = "tIVAR" THEN "InvalidIvarName"
                                     ELSE "InvalidCvarName", c>>, a.ptok, a.pcur),
                               EXPR_END), kind)
            ELSE Added(tokadd_ident(a, c), kind)
        Stated(n, kind) ==
            Checked(set_state(n.st, IF is_some(last_state, EXPR_FNAME) THEN EXPR_ENDFN
                                    ELSE EXPR_END),
                    n.c, kind)
        Read(n) ==
            IF n.c = "@" THEN Stated(nextc(tokadd(n.st, "@")), "tCVAR")
            ELSE Stated(n, "tIVAR")
        Began(n) == Read([st |-> tokadd(newtok(n.st), "@"), c |-> n.c])
    IN  Began(nextc(s))

Pass(s, c, space_seen, cmd_state, token_seen, last_state) ==
    CASE c \in {EOF, NULL_CHAR, CTRL_D_CHAR, CTRL_Z_CHAR} -> Ret(s, "END_OF_INPUT")
      [] c = CR -> parse_ident(cr_arm(s), cmd_state)
      [] c \in {SP, TAB, LF_CHAR, VTAB_CHAR} -> Cont(s, TRUE)
      [] c \in {"#", NL} -> newline_arm(s, c, space_seen, token_seen)
      [] c = "*" -> star_arm(s, space_seen, last_state)
      [] c = "!" -> bang_arm(s)
      [] c = "=" -> eq_arm(s, space_seen)
      [] c = "<" -> lt_arm(s, space_seen, last_state)
      [] c = ">" -> gt_arm(s)
      [] c = "&" -> amp_arm(s, space_seen, last_state)
      [] c = "|" -> pipe_arm(s, last_state)
      [] c = "+" -> plus_arm(s, space_seen, last_state)
      [] c = "-" -> minus_arm(s, space_seen, last_state)
      [] c = "." -> dot_arm(s, space_seen, last_state)
      [] c \in Digits -> parse_numeric(s, c)
      [] c = ")" -> rparen_arm(s)
      [] c = "]" -> rbrack_arm(s)
      [] c = "}" -> rcurly_arm(s)
      [] c = ":" -> colon_arm(s, space_seen, last_state)
      [] c = "/" -> slash_arm(s, space_seen, last_state)
      [] c = "^" -> caret_arm(s)
      [] c = ";" -> semi_arm(s)
      [] c = "," -> comma_arm(s)
      [] c = "~" -> tilde_arm(s)
      [] c = "(" -> lparen_arm(s, space_seen)
      [] c = "[" -> lbrack_arm(s, space_seen)
      [] c = "{" -> lbrace_arm(s)
      [] c = "\\" -> backslash_arm(s, space_seen)
      [] c \in {"\"", "'"} -> quote_arm(s, c, cmd_state)
      [] c = BACKTICK -> backtick_arm(s, cmd_state)
      [] c = "?" -> parse_qmark(s, space_seen)
      [] c = "%" -> parse_percent(s, space_seen, last_state)
      [] c = "$" -> parse_gvar(s, last_state)
      [] c = "@" -> parse_atmark(s, last_state)
      [] c = "_" -> underscore_arm(s, cmd_state)
      [] OTHER -> default_arm(s, c, cmd_state, space_seen)

(* The loop 'retrying.  `stalled` records whether some pass went round   *)
(* again without having moved the cursor forward.                         *)
RECURSIVE dispatch(_, _, _, _, _)
dispatch(s, space_seen, cmd_state, token_seen, stalled) ==
    LET Retry(r) ==
            IF r.cont
            THEN dispatch(r.st, r.space_seen, cmd_state, token_seen,
                          stalled \/ ~(r.st.pcur > s.pcur))
            ELSE [st |-> r.st, kind |-> r.kind, stalled |-> stalled]
        Arm(n) == Retry(Pass(n.st, n.c, space_seen, cmd_state, token_seen, s.lex_state))
    IN  Arm(nextc(token_flush(s)))

parser_yylex(s) ==
    IF s.strterm # NoStrTerm
    THEN LET Literal(r) == [st |-> r.st, kind |-> r.kind, stalled |-> FALSE]
         IN  Literal(IF s.strterm[1].kind = "heredoc" THEN here_document(s)
                     ELSE parse_string(token_flush(s)))
    ELSE dispatch([s EXCEPT !.command_start = FALSE, !.token_seen = TRUE],
                  FALSE, s.command_start, s.token_seen, FALSE)

Token(kind, value, b, e) == [kind |-> kind, value |-> value, begin |-> b, end |-> e]

yylex(s) ==
    LET Located(r, a, begin, end) ==
            [st |-> [a EXCEPT !.lval = <<>>, !.lval_start = <<>>, !.lval_end = <<>>],
             \* String::from_utf8(..).expect("source must be encoded in utf-8")
             token |-> IF r.kind # "HANG" /\ a.lval = <<>>
                          /\ ~is_utf8(substr_at(a, begin, end))
                       THEN Token("PANIC", <<>>, begin, end)
                       ELSE IF r.kind = "tNL" THEN Token(r.kind, <<NL>>, begin, begin + 1)
                       ELSE Token(r.kind,
                                  IF a.lval # <<>> THEN a.lval[1]
                                  ELSE substr_at(a, begin, end),
                                  begin, end),
             stalled |-> r.stalled]
        Lexed(r) ==
            Located(r, r.st,
                    IF r.st.lval_start # <<>> THEN r.st.lval_start[1] ELSE r.st.ptok,
                    IF r.st.lval_end # <<>> THEN r.st.lval_end[1] ELSE r.st.pcur)
    IN  Lexed(parser_yylex([s EXCEPT !.lval = <<>>]))

----------------------------------------------------------------------------
(* StaticEnvironment, and the builder's scope handles: the context stack  *)
(* and the stack of numbered-parameter counts.                            *)

FORWARD_ARGS == "FORWARD_ARGS"

extend_staticMutant(b) == [b EXCEPT !.stack = Append(@, b.variables)]

extend_static(b) == [b EXCEPT !.variables = {}, !.stack = Append(@, b.variables)]
extend_dynamic(b) == [b EXCEPT !.stack = Append(@, b.variables)]
unextendMutant(b) ==
    [b EXCEPT !.variables = b.stack[1], !.stack = SubSeq(@, 1, Len(@) - 1)]

unextend(b) ==
    [b EXCEPT !.variables = b.stack[Len(b.stack)], !.stack = SubSeq(@, 1, Len(@) - 1)]
reset(b) == [b EXCEPT !.variables = {}, !.stack = <<>>]
declare(b, name) == [b EXCEPT !.variables = @ \cup {name}]
is_declared(b, name) == name \in b.variables
declare_forward_args(b) == declare(b, FORWARD_ARGS)
declared_forward_args(b) == is_declared(b, FORWARD_ARGS)

is_in_dynamic_block(b) ==
    b.context # <<>> /\ b.context[Len(b.context)] \in {"block", "lambda"}

(* Context::is_dynamic_const_definition_allowed: not in a method body. *)
is_dynamic_const_definition_allowed(b) ==
    \A i \in 1..Len(b.context) : b.context[i] # "def"

has_numparams(b) ==
    b.max_numparam_stack # <<>> /\ b.max_numparam_stack[Len(b.max_numparam_stack)] > 0

Numparams == {"_1", "_2", "_3", "_4", "_5", "_6", "_7", "_8", "_9"}

error(b, message, loc) ==
    [b EXCEPT !.diagnostics = Append(@, Diag("Error", message, loc[1], loc[2]))]

Ok(b, node) == [b |-> b, ok |-> TRUE, node |-> node]
Err(b) == [b |-> b, ok |-> FALSE, node |-> [type |-> "none"]]
Panic(b) == [b |-> b, ok |-> FALSE, node |-> [type |-> "panic"]]

check_assignment_to_numparamMutant(b, name, loc) ==
    IF is_in_dynamic_block(b) /\ name \in Numparams /\ has_numparams(b)
    THEN Err(error([b EXCEPT !.variables = @ \cup {name}], <<"CantAssignToNumparam", name>>, loc))
    ELSE Ok(b, [type |-> "none"])

check_assignment_to_numparam(b, name, loc) ==
    IF is_in_dynamic_block(b) /\ name \in Numparams /\ has_numparams(b)
    THEN Err(error(b, <<"CantAssignToNumparam", name>>, loc))
    ELSE Ok(b, [type |-> "none"])

check_reserved_for_numparam(b, name, loc) ==
    IF name \in Numparams
    THEN Err(error(b, <<"ReservedForNumparam", name>>, loc))
    ELSE Ok(b, [type |-> "none"])

assignable(b, node) ==
    CASE node.type = "Lvar" ->
           LET c1 == check_assignment_to_numparam(b, node.name, node.expression_l)
               c2 == check_reserved_for_numparam(b, node.name, node.expression_l)
           IN  IF ~c1.ok THEN Err(c1.b)
               ELSE IF ~c2.ok THEN Err(c2.b)
               ELSE Ok(declare(b, node.name),
                       [type |-> "Lvasgn", name |-> node.name, value |-> <<>>,
                        name_l |-> node.expression_l, expression_l |-> node.expression_l,
                        operator_l |-> <<>>])
      [] node.type = "Ivar" ->
           Ok(b, [type |-> "Ivasgn", name |-> node.name, value |-> <<>>,
                  name_l |-> node.expression_l, expression_l |-> node.expression_l,
                  operator_l |-> <<>>])
      [] node.type \in {"Cvar", "Gvar"} ->
           Ok(b, [type |-> IF node.type = "Cvar" THEN "Cvasgn" ELSE "Gvasgn",
                  name |-> node.name, value |-> <<>>,
                  name_l |-> node.expression_l, expression_l |-> node.expression_l,
                  operator_l |-> <<>>])
      [] node.type = "Const" ->
           IF ~is_dynamic_const_definition_allowed(b)
           THEN Err(error(b, <<"DynamicConstantAssignment">>, node.expression_l))
           ELSE Ok(b, [type |-> "Casgn", name |-> node.name, scope |-> node.scope,
                       value |-> <<>>, name_l |-> node.name_l,
                       double_colon_l |-> node.double_colon_l,
                       expression_l |-> node.expression_l, operator_l |-> <<>>])
      [] node.type = "Self_" ->
           Err(error(b, <<"CantAssignToSelf">>, node.expression_l))
      [] node.type = "Nil" -> Err(error(b, <<"CantAssignToNil">>, node.expression_l))
      [] node.type = "True" -> Err(error(b, <<"CantAssignToTrue">>, node.expression_l))
      [] node.type = "False" -> Err(error(b, <<"CantAssignToFalse">>, node.expression_l))
      [] node.type = "File" -> Err(error(b, <<"CantAssignToFile">>, node.expression_l))
      [] node.type = "Line" -> Err(error(b, <<"CantAssignToLine">>, node.expression_l))
      [] node.type = "Encoding" ->
           Err(error(b, <<"CantAssignToEncoding">>, node.expression_l))
      [] node.type = "BackRef" ->
           Err(error(b, <<"CantSetVariable", node.name>>, node.expression_l))
      [] node.type = "NthRef" ->
           Err(error(b, <<"CantSetVariable", "$" \o node.name>>, node.expression_l))
      [] OTHER -> Panic(b)

NewBuilder ==
    [variables |-> {}, stack |-> <<>>, context |-> <<>>, max_numparam_stack |-> <<>>,
     current_arg_stack |-> <<>>, pattern_variables |-> {}, pattern_hash_keys |-> {},
     diagnostics |-> <<>>]

NoRet == [called |-> FALSE, op |-> "", node |-> [type |-> "none"], pre |-> NewBuilder,
          ok |-> FALSE, result |-> [type |-> "none"]]

----------------------------------------------------------------------------
(* The lexer as a state machine: tokenize_until_eof calls yylex until it  *)
(* returns END_OF_INPUT; a caller that holds the lexer may go on calling. *)

Alphabet == {"a", "d", "o", NL, SP, "#", "&", NULL_CHAR, "{", "}", ")", ":"}

HeredocAlphabet == {"<", "A", NL, ";"}

Scenarios ==
    { <<"-", ">", SP, "{", SP, "1", SP, "}">>,
      <<")", NL, ":", "d", "o">>,
      <<"}", ")", "{", "}">>,
      <<"}", ")", "{", "{", "}", "}">>,
      <<"1", NL, ".", ".", "2">>,
      <<"a", ".", "1", INVALID_CHAR, "\\", NL, "=", "b">>,
      <<"=", "b", "e", "g", "i", "n", NL, "=", "e", "n", "d", NL, "a", ":">>,
      <<"_", "_", "E", "N", "D", "_", "_", NL, "a">>,
      <<"=", "b", "e", "g", "i", "n", NL, "a">>,
      <<"a", SP, "<", "<", "A", NL, "A", NL>>,
      <<")", ";", "a", SP, "a", ":", "{">>,
      <<"a", SP, "+", "1">>, <<"a", SP, "-", "1">>, <<"a", TAB, "+", "a">>,
      <<"a", SP, "-", "a">>, <<"a", SP, "-", ">", "a">>, <<"a", SP, "+", "=", "1">>,
      <<"a", SP, "-", "=", "1">>, <<"a", SP, "+", SP, "1">>, <<"a", "+", "1">>,
      <<"a", "-", "a">>, <<"+", "1">>, <<"-", "a">>, <<"a", SP, "+">>,
      <<"a", SP, "+", "@">>, <<"a", ".", "+", "1">>, <<"a", SP, "a", SP, "-", "1">> }

Inputs ==
    UNION {[1..k -> Alphabet] : k \in 0..MaxLen}
    \cup {<<"<", "<", "A">> \o tail :
              tail \in UNION {[1..k -> HeredocAlphabet] : k \in 0..MaxHeredocLen}}
    \cup Scenarios

NewLexer(input) ==
    [input |-> input, pbeg |-> 0, pend |-> 0, pcur |-> 0, ptok |-> 0, stream |-> 0,
     nextline |-> NoLine, prevline_end |-> 0, eofp |-> FALSE, cr_seen |-> FALSE,
     lex_state |-> EXPR_BEG, paren_nest |-> 0, lpar_beg |-> -1, brace_nest |-> 0,
     command_start |-> FALSE, token_seen |-> FALSE, in_kwarg |-> FALSE,
     cond |-> 0, cmdarg |-> 0, strterm |-> NoStrTerm, static_env |-> {},
     diagnostics |-> <<>>, comments |-> <<>>, tokenbuf |-> <<>>,
     lval |-> <<>>, lval_start |-> <<>>, lval_end |-> <<>>]

NoToken == Token("", <<>>, 0, 0)

LBraceKinds == {"tLAMBEG", "tLCURLY", "tLBRACE", "tLBRACE_ARG"}
RBraceKinds == {"tRCURLY", "tSTRING_DEND"}

(* The braces still open after `token`, innermost first, each with the   *)
(* kind it was lexed as and the brace_nest the lexer had before it.      *)
OpenAfter(open, token, pre) ==
    IF token.kind \in LBraceKinds
    THEN <<[kind |-> token.kind, nest |-> pre.brace_nest]>> \o open
    ELSE IF token.kind \in RBraceKinds /\ open # <<>> THEN Tail(open)
    ELSE open

(* What the last call of yylex did: the lexer before it, the token it    *)
(* returned, whether END_OF_INPUT had been returned before it.           *)
Called(l, r, after_eoi) ==
    [l EXCEPT !.called = TRUE, !.pre = lexer, !.token = r.token, !.stalled = r.stalled,
              !.after_eoi = after_eoi, !.open_before = l.open,
              !.open = OpenAfter(l.open, r.token, lexer),
              !.extra = IF after_eoi THEN @ + 1 ELSE @]

InitLexer ==
    /\ \E input \in Inputs, driven \in BOOLEAN :
          /\ lexer = NewLexer(input)
          /\ last = [called |-> FALSE, pre |-> NewLexer(input), token |-> NoToken,
                     stalled |-> FALSE, after_eoi |-> FALSE, open_before |-> <<>>,
                     open |-> <<>>, extra |-> 0, driven |-> driven]
    /\ tokens = <<>>
    /\ pc = "lexing"
    /\ builder = NewBuilder
    /\ ret = NoRet

(* One turn of the loop of tokenize_until_eof. *)
NextToken ==
    /\ pc = "lexing"
    /\ LET Returned(r) ==
               /\ lexer' = r.st
               /\ last' = Called(last, r, FALSE)
               /\ tokens' = IF r.token.kind \in {"END_OF_INPUT", "HANG", "PANIC"} THEN tokens
                            ELSE Append(tokens, r.token)
               /\ pc' = CASE r.token.kind = "HANG" -> "hung"
                          [] r.token.kind = "PANIC" -> "panicked"
                          [] r.token.kind = "END_OF_INPUT" -> "done"
                          [] r.token.kind = "tLAMBDA" /\ last.driven -> "lambda"
                          [] OTHER -> "lexing"
       IN  Returned(yylex(lexer))
    /\ UNCHANGED <<builder, ret>>

(* The grammar's action after tLAMBDA, when a grammar drives the lexer. *)
LambdaRule ==
    /\ pc = "lambda"
    /\ lexer' = [lexer EXCEPT !.lpar_beg = lexer.paren_nest]
    /\ pc' = "lexing"
    /\ UNCHANGED <<tokens, last, builder, ret>>

(* A call of yylex made after END_OF_INPUT has been returned. *)
ExtraCall ==
    /\ pc = "done"
    /\ last.extra < MaxExtraCalls
    /\ LET Returned(r) ==
               /\ lexer' = r.st
               /\ last' = Called(last, r, TRUE)
               /\ pc' = CASE r.token.kind = "HANG" -> "hung"
                          [] r.token.kind = "PANIC" -> "panicked"
                          [] OTHER -> "done"
       IN  Returned(yylex(lexer))
    /\ UNCHANGED <<tokens, builder, ret>>

NextLexer == NextToken \/ LambdaRule \/ ExtraCall

SpecLexer == InitLexer /\ [][NextLexer]_vars

Kinds(toks) == [i \in 1..Len(toks) |-> toks[i].kind]

TypeOK == pc \in {"lexing", "lambda", "done", "hung", "panicked", "builder"}

----------------------------------------------------------------------------
(* Claims about the lexer. *)

IsCall == last.called /\ last.token.kind \notin {"HANG", "PANIC"}
IsTokenCall == IsCall /\ last.token.kind # "END_OF_INPUT"
IsDispatched == IsCall /\ last.pre.strterm = NoStrTerm
StringKinds == {"tSTRING_BEG", "tSTRING_CONTENT", "tSTRING_END"}
DoKinds == {"kDO", "kDO_LAMBDA", "kDO_COND", "kDO_BLOCK"}
LambdaPending == last.pre.lpar_beg = last.pre.paren_nest

(* C1: every call of the lexer that returns a token other than            *)
(* END_OF_INPUT leaves the cursor strictly further than it found it, and  *)
(* no pass of the dispatch loop goes round again without having consumed  *)
(* a byte.                                                                *)
C1_Progress ==
    /\ IsTokenCall => lexer.pcur > last.pre.pcur
    /\ IsCall => ~last.stalled

(* A heredoc terminator has been returned and the cursor is back on the  *)
(* opening line, before the place the previous call had left it.         *)
C1_Regress == IsTokenCall /\ last.token.kind = "tSTRING_END" /\ lexer.pcur < last.pre.pcur

(* C2: tokenize_until_eof returns: every call of yylex it makes returns, *)
(* and what it has collected holds no END_OF_INPUT.                      *)
C2_Terminates ==
    /\ pc # "hung"
    /\ \A i \in 1..Len(tokens) : tokens[i].kind # "END_OF_INPUT"

(* The call made after the token before a newline followed by `&` never *)
(* returns.                                                              *)
C2_Hung == pc = "hung" /\ ~last.after_eoi /\ lexer.input = <<"a", NL, "&">>

(* C3: a call of next_token made after END_OF_INPUT has been returned    *)
(* returns END_OF_INPUT.                                                 *)
C3_EoiLatched == last.called /\ last.after_eoi => last.token.kind = "END_OF_INPUT"

(* END_OF_INPUT was returned at a NUL byte and the call after it returns *)
(* the identifier that follows the NUL.                                  *)
C3_TokenAfterEoi ==
    last.after_eoi /\ last.token.kind = "tIDENTIFIER" /\ lexer.input = <<NULL_CHAR, "a">>

(* C4: the tokens tokenize_until_eof collects are in non-decreasing      *)
(* order of loc.begin.                                                   *)
C4_Ordered == \A i \in 1..(Len(tokens) - 1) : tokens[i].begin <= tokens[i + 1].begin

(* The `;` after a heredoc tag is returned after the terminator, which   *)
(* lies on a later line.                                                 *)
C4_OutOfOrder ==
    /\ pc = "done"
    /\ lexer.input = <<"<", "<", "A", ";", NL, "A", NL>>
    /\ Kinds(tokens) = <<"tSTRING_BEG", "tSTRING_END", "tSEMI">>
    /\ tokens[3].begin < tokens[2].begin

(* The part of the opening line that follows the heredoc tag tokens[i]. *)
OnOpeningLine(i, k) ==
    /\ tokens[k].begin >= tokens[i].end
    /\ tokens[k].begin < LineEnd(lexer.input, tokens[i].begin)

IsHeredocOpen(i) ==
    /\ tokens[i].kind = "tSTRING_BEG"
    /\ Len(tokens[i].value) >= 2
    /\ SubSeq(tokens[i].value, 1, 2) = <<"<", "<">>

(* C5: once a heredoc has been opened, no token of the rest of its       *)
(* opening line, up to the newline that ends it, is returned after a     *)
(* token of the body or the terminator.                                  *)
C5_BodyDeferred ==
    \A i, j, k \in 1..Len(tokens) :
        i < j /\ j < k /\ IsHeredocOpen(i)
        /\ tokens[j].kind \in {"tSTRING_CONTENT", "tSTRING_END"}
        => tokens[k].kind = "tNL" \/ ~OnOpeningLine(i, k)

(* The body of a heredoc is returned by the call right after the one    *)
(* that returned its tag, and the `;` of the opening line after it.      *)
C5_BodyFirst ==
    /\ lexer.input = <<"<", "<", "A", ";", NL, ";", NL, "A">>
    /\ Kinds(tokens) = <<"tSTRING_BEG", "tSTRING_CONTENT", "tSTRING_END", "tSEMI">>

(* C6: a token that is no string fragment lies within the source and    *)
(* its value is the bytes of its range.                                  *)
C6_ValueIsSlice ==
    \A i \in 1..Len(tokens) :
        tokens[i].kind \notin StringKinds =>
            /\ tokens[i].begin <= tokens[i].end
            /\ tokens[i].end <= Len(lexer.input)
            /\ SubSeq(lexer.input, tokens[i].begin + 1, tokens[i].end) = tokens[i].value

(* The tNL made at the end of an input that ends in a comment has the   *)
(* value "\n" and the range of the `#`.                                  *)
C6_NewlineOnComment ==
    /\ lexer.input = <<"a", "#">>
    /\ Len(tokens) = 2
    /\ tokens[2] = Token("tNL", <<NL>>, 1, 2)

(* C7: a `}` read by the dispatch loop is tSTRING_DEND when brace_nest   *)
(* was 0 before it and tRCURLY when it was not.                          *)
C7_RcurlyByNest ==
    IsDispatched /\ last.token.value = <<"}">> =>
        last.token.kind = IF last.pre.brace_nest = 0 THEN "tSTRING_DEND" ELSE "tRCURLY"

(* A `}` has closed a `{` as tRCURLY and the stray `}` after it, read at *)
(* brace_nest 0, is tSTRING_DEND.                                        *)
C7_Witness ==
    /\ IsDispatched
    /\ last.token.kind = "tSTRING_DEND"
    /\ last.pre.brace_nest = 0
    /\ \E i \in 1..Len(tokens) : tokens[i].kind = "tRCURLY"

(* C8: a `do` keyword read while lpar_beg = paren_nest is kDO_LAMBDA. *)
C8_DoLambda ==
    IsDispatched /\ last.token.kind \in DoKinds /\ LambdaPending
        => last.token.kind = "kDO_LAMBDA"

(* C8, amended: a `do` keyword read while lpar_beg = paren_nest by a     *)
(* call that the lexer entered in a state without EXPR_FNAME is          *)
(* kDO_LAMBDA.                                                           *)
C8_DoLambdaUnlessFname ==
    IsDispatched /\ last.token.kind \in DoKinds /\ LambdaPending
    /\ ~is_some(last.pre.lex_state, EXPR_FNAME)
        => last.token.kind = "kDO_LAMBDA"

(* `)do`: the `)` has brought paren_nest down to lpar_beg and the `do`   *)
(* after it is kDO_LAMBDA.                                               *)
C8_Witness ==
    /\ IsDispatched
    /\ LambdaPending
    /\ ~is_some(last.pre.lex_state, EXPR_FNAME)
    /\ last.token.kind = "kDO_LAMBDA"
    /\ lexer.lpar_beg = -1

LambdaExample == <<"-", ">", SP, "{", SP, "1", SP, "}">>

C9_Lambeg ==
    /\ IsDispatched /\ last.token.kind \in LBraceKinds /\ LambdaPending
           => last.token.kind = "tLAMBEG"
    /\ IsDispatched /\ last.token.kind = "tLAMBEG" => LambdaPending
    /\ pc = "done" /\ last.driven /\ lexer.input = LambdaExample
           => Kinds(tokens) = <<"tLAMBDA", "tLAMBEG", "tINTEGER", "tRCURLY">>

ClosesLambeg ==
    /\ IsDispatched
    /\ last.token.value = <<"}">>
    /\ last.open_before # <<>>
    /\ last.open_before[1].kind = "tLAMBEG"

(* C9: a `{` read while lpar_beg = paren_nest is tLAMBEG in every state, *)
(* the `}` that closes it is tRCURLY, `-> { 1 }` under a grammar gives   *)
(* tLAMBDA tLAMBEG tINTEGER tRCURLY, and no `{` is tLAMBEG while         *)
(* lpar_beg # paren_nest.                                                *)
C9_LambdaBraces ==
    /\ C9_Lambeg
    /\ ClosesLambeg => last.token.kind = "tRCURLY"

(* C9, amended: as C9, the closing `}` being tRCURLY when brace_nest was *)
(* not negative before the `{`.                                          *)
C9_LambdaBracesFromNest ==
    /\ C9_Lambeg
    /\ ClosesLambeg /\ last.open_before[1].nest >= 0 => last.token.kind = "tRCURLY"

(* `-> { 1 }` has been lexed to its end under a grammar. *)
C9_Witness ==
    /\ pc = "done"
    /\ last.driven
    /\ lexer.input = LambdaExample
    /\ Kinds(tokens) = <<"tLAMBDA", "tLAMBEG", "tINTEGER", "tRCURLY">>

----------------------------------------------------------------------------
(* The builder as a state machine: the grammar opens and closes blocks,  *)
(* meets numbered parameters in them, and hands nodes to assignable.     *)

MaxDiagnostics == 2

Names == {"_1", "_9", "a"}

(* A constant of one letter: `A`, or `A::B` with the scope `A`, the range *)
(* of `::` and the name at name_at; an Option is <<>> or <<x>>.           *)
Const(name, scope, double_colon_l, name_at) ==
    [type |-> "Const", name |-> name, scope |-> scope, double_colon_l |-> double_colon_l,
     name_l |-> <<name_at, name_at + 1>>,
     expression_l |-> <<IF scope = <<>> THEN name_at ELSE scope[1].expression_l[1],
                        name_at + 1>>]

Nodes ==
    [type : {"Lvar", "Ivar"}, name : Names, expression_l : {<<0, 2>>}]
    \cup {[type |-> "Self_", name |-> "self", expression_l |-> <<0, 4>>],
          [type |-> "Nil", name |-> "nil", expression_l |-> <<0, 3>>],
          [type |-> "NthRef", name |-> "1", expression_l |-> <<0, 2>>],
          [type |-> "BackRef", name |-> "$&", expression_l |-> <<0, 2>>],
          [type |-> "True", name |-> "true", expression_l |-> <<0, 4>>],
          [type |-> "False", name |-> "false", expression_l |-> <<0, 5>>],
          [type |-> "File", name |-> "__FILE__", expression_l |-> <<0, 8>>],
          [type |-> "Line", name |-> "__LINE__", expression_l |-> <<0, 8>>],
          [type |-> "Encoding", name |-> "__ENCODING__", expression_l |-> <<0, 12>>],
          [type |-> "Cvar", name |-> "@@a", expression_l |-> <<0, 3>>],
          [type |-> "Gvar", name |-> "$a", expression_l |-> <<0, 2>>],
          Const("A", <<>>, <<>>, 0),
          Const("B", <<Const("A", <<>>, <<>>, 0)>>, <<<<1, 3>>>>, 3)}

InitBuilder ==
    /\ builder = NewBuilder
    /\ ret = NoRet
    /\ lexer = NewLexer(<<>>)
    /\ last = [called |-> FALSE, pre |-> NewLexer(<<>>), token |-> NoToken,
               stalled |-> FALSE, after_eoi |-> FALSE, open_before |-> <<>>,
               open |-> <<>>, extra |-> 0, driven |-> FALSE]
    /\ tokens = <<>>
    /\ pc = "builder"

(* A block or a lambda body opens: a dynamic scope, a context frame and *)
(* a fresh count of numbered parameters.                                 *)
EnterBlock ==
    /\ pc = "builder"
    /\ Len(builder.context) < MaxBlockDepth
    /\ \E kind \in {"block", "lambda"} :
          builder' = [extend_dynamic(builder) EXCEPT
                         !.context = Append(@, kind),
                         !.max_numparam_stack = Append(@, 0)]
    /\ ret' = NoRet
    /\ UNCHANGED <<lexer, tokens, last, pc>>

LeaveBlock ==
    /\ pc = "builder"
    /\ builder.context # <<>>
    /\ builder' = [unextend(builder) EXCEPT
                      !.context = SubSeq(@, 1, Len(@) - 1),
                      !.max_numparam_stack = SubSeq(@, 1, Len(@) - 1)]
    /\ ret' = NoRet
    /\ UNCHANGED <<lexer, tokens, last, pc>>

(* max_numparam_stack.register(n), at an occurrence of `_n` in a block. *)
RegisterNumparam ==
    /\ pc = "builder"
    /\ builder.max_numparam_stack # <<>>
    /\ \E n \in {1, 9} :
          LET top == Len(builder.max_numparam_stack)
          IN  builder' = [builder EXCEPT !.max_numparam_stack[top] = IF n > @ THEN n ELSE @]
    /\ ret' = NoRet
    /\ UNCHANGED <<lexer, tokens, last, pc>>

Assignable ==
    /\ pc = "builder"
    /\ Len(builder.diagnostics) < MaxDiagnostics
    /\ \E node \in Nodes :
          LET r == assignable(builder, node)
          IN  /\ builder' = r.b
              /\ ret' = [called |-> TRUE, op |-> "assignable", node |-> node,
                         pre |-> builder, ok |-> r.ok, result |-> r.node]
    /\ UNCHANGED <<lexer, tokens, last, pc>>

NextBuilder == EnterBlock \/ LeaveBlock \/ RegisterNumparam \/ Assignable

SpecBuilder == InitBuilder /\ [][NextBuilder]_vars

LastError == builder.diagnostics[Len(builder.diagnostics)]

AssignedNumparam ==
    ret.called /\ ret.op = "assignable" /\ ret.node.type = "Lvar" /\ ret.node.name \in Numparams

(* C10: assignable of an Lvar named _1.._9 is the error                  *)
(* CantAssignToNumparam in a dynamic block that has numbered parameters; *)
(* outside any block it is Ok(Lvasgn) and the name is declared.          *)
C10_NumparamAssignment ==
    /\ AssignedNumparam /\ is_in_dynamic_block(ret.pre) /\ has_numparams(ret.pre)
           => ~ret.ok /\ LastError.message = <<"CantAssignToNumparam", ret.node.name>>
    /\ AssignedNumparam /\ ret.pre.context = <<>>
           => ret.ok /\ ret.result.type = "Lvasgn" /\ is_declared(builder, ret.node.name)

(* Outside any block, assignable of the Lvar `_1` is the error           *)
(* ReservedForNumparam and `_1` is not declared.                         *)
C10_RejectedOutsideBlock ==
    /\ AssignedNumparam
    /\ ret.node.name = "_1"
    /\ ret.pre.context = <<>>
    /\ ~ret.ok
    /\ LastError.message = <<"ReservedForNumparam", "_1">>
    /\ ~is_declared(builder, "_1")

----------------------------------------------------------------------------
(* Formal parameters: args and the check of duplicated names.  A name is  *)
(* a sequence of characters; a character outside ASCII takes two bytes.   *)

MaxArgs == 2

E_ACUTE == "U+00E9"

(* char::len_utf8: the bytes a character takes in a str.                  *)
OneByteChars == {CodePoint(n) : n \in 0..127}
TwoByteChars == {CodePoint(n) : n \in 128..2047}

Utf8Len(ch) ==
    IF ~(Len(ch) >= 6 /\ SubSeq(ch, 1, 2) = "U+") THEN 1
    ELSE IF Len(ch) > 6 THEN 4
    ELSE IF ch \in OneByteChars THEN 1
    ELSE IF ch \in TwoByteChars THEN 2
    ELSE 3

Max(S) == CHOOSE x \in S : \A y \in S : y <= x

(* Range::join: the smallest range that covers both. *)
join(l, r) == <<Min({l[1], r[1]}), Max({l[2], r[2]})>>

join_maybe_locs(lhs, rhs) ==
    IF lhs = <<>> THEN rhs
    ELSE IF rhs = <<>> THEN lhs
    ELSE <<join(lhs[1], rhs[1])>>

maybe_node_expr(nodes, i) == IF nodes = <<>> THEN <<>> ELSE <<nodes[i].expression_l>>

collection_expr(nodes) ==
    join_maybe_locs(maybe_node_expr(nodes, 1), maybe_node_expr(nodes, Len(nodes)))

merge_maybe_locs(locs) ==
    join_maybe_locs(join_maybe_locs(join_maybe_locs(<<>>, locs[1]), locs[2]), locs[3])

loc(token) == <<token.begin, token.end>>

maybe_loc(token) == IF token = <<>> THEN <<>> ELSE <<loc(token[1])>>

collection_mapMutant(begin_t, parts, end_t) ==
    [begin_l |-> maybe_loc(begin_t), end_l |-> maybe_loc(end_t),
     expression_l |-> merge_maybe_locs(<<maybe_loc(begin_t), collection_expr(parts),
                                         maybe_loc(begin_t)>>)]

(* (begin_l, end_l, expression_l); the last is <<>> where the code is     *)
(* unreachable!().                                                        *)
collection_map(begin_t, parts, end_t) ==
    [begin_l |-> maybe_loc(begin_t), end_l |-> maybe_loc(end_t),
     expression_l |-> merge_maybe_locs(<<maybe_loc(begin_t), collection_expr(parts),
                                         maybe_loc(end_t)>>)]

NamedArgs == {"Arg", "Optarg", "Kwarg", "Kwoptarg", "Shadowarg", "Blockarg"}
OptionallyNamedArgs == {"Restarg", "Kwrestarg"}

(* An Option is <<>> or <<x>>; the optional fields name and name_l of     *)
(* Restarg and Kwrestarg hold <<>> for None and the value itself for Some. *)
as_ref(field) == IF field = <<>> THEN <<>> ELSE <<field>>

arg_name(node) ==
    IF node.type \in OptionallyNamedArgs THEN as_ref(node.name) ELSE <<node.name>>

arg_name_loc(node) ==
    IF node.type \in {"Arg", "Shadowarg"} THEN node.expression_l
    ELSE IF node.type \in OptionallyNamedArgs
         THEN IF as_ref(node.name_l) # <<>> THEN as_ref(node.name_l)[1]
              ELSE node.expression_l
    ELSE node.name_l

(* &this_name[0..1] panics when byte 1 is not a character boundary. *)
arg_name_collides(this_name, that_name) ==
    IF this_name = <<>> \/ Utf8Len(this_name[1]) > 1
    THEN [panic |-> TRUE, value |-> FALSE]
    ELSE [panic |-> FALSE, value |-> this_name[1] # "_" /\ this_name = that_name]

(* st: the builder, the map from names to the first parameter of that     *)
(* name, and whether the walk has panicked.                               *)
check_duplicate_arg(st, this_arg) ==
    LET Collided(c) ==
            IF c.panic THEN [st EXCEPT !.panic = TRUE]
            ELSE IF c.value
            THEN [st EXCEPT !.b = error(st.b, <<"DuplicatedArgumentName">>,
                                        arg_name_loc(this_arg))]
            ELSE st
        Named(this_name) ==
            IF this_name \notin DOMAIN st.map
            THEN [st EXCEPT !.map = [n \in DOMAIN st.map \cup {this_name} |->
                                        IF n = this_name THEN this_arg ELSE st.map[n]]]
            ELSE IF arg_name(st.map[this_name]) = <<>> THEN st
            ELSE Collided(arg_name_collides(this_name, arg_name(st.map[this_name])[1]))
    IN  IF arg_name(this_arg) = <<>> THEN st ELSE Named(arg_name(this_arg)[1])

(* A node of any other type than the parameter types is unreachable!()    *)
(* and panics.                                                            *)
RECURSIVE check_duplicate_args(_, _)
check_duplicate_args(st, list) ==
    IF list = <<>> \/ st.panic THEN st
    ELSE LET Rest(next) == check_duplicate_args(next, Tail(list))
             Arg(arg) ==
                 IF arg.type \in NamedArgs \cup OptionallyNamedArgs
                 THEN check_duplicate_arg(st, arg)
                 ELSE IF arg.type = "Mlhs" THEN check_duplicate_args(st, arg.items)
                 ELSE IF arg.type = "Procarg0" THEN check_duplicate_args(st, arg.args)
                 ELSE IF arg.type \in {"ForwardArg", "Kwnilarg"} THEN st
                 ELSE [st EXCEPT !.panic = TRUE]
         IN  Rest(Arg(Head(list)))

args(b, begin_t, list, end_t) ==
    LET Checked(st) ==
            IF st.panic THEN Panic(st.b)
            ELSE IF begin_t = <<>> /\ list = <<>> /\ end_t = <<>>
            THEN Ok(st.b, [type |-> "none"])
            ELSE Ok(st.b, [type |-> "Args", args |-> list]
                          @@ collection_map(begin_t, list, end_t))
    IN  Checked(check_duplicate_args([b |-> b, map |-> <<>>, panic |-> FALSE], list))

(* The parameter lists given to args: up to MaxArgs entries, each a       *)
(* parameter of any kind or an Mlhs / Procarg0 of one or two Arg; entry i *)
(* starts at offset 10 * i.                                               *)
ParamNames == {<<"a">>, <<"_", "a">>, <<E_ACUTE>>}

ByteLen(name) == IF Len(name) = 1 THEN Utf8Len(name[1]) ELSE Utf8Len(name[1]) + Utf8Len(name[2])

Param(type, name, at) ==
    CASE type \in {"Arg", "Shadowarg"} ->
           [type |-> type, name |-> name, expression_l |-> <<at, at + ByteLen(name)>>]
      [] type = "Optarg" ->
           [type |-> type, name |-> name, name_l |-> <<at, at + ByteLen(name)>>,
            expression_l |-> <<at, at + ByteLen(name) + 2>>]
      [] type = "Kwarg" ->
           [type |-> type, name |-> name, name_l |-> <<at, at + ByteLen(name)>>,
            expression_l |-> <<at, at + ByteLen(name) + 1>>]
      [] type = "Kwoptarg" ->
           [type |-> type, name |-> name, name_l |-> <<at, at + ByteLen(name)>>,
            expression_l |-> <<at, at + ByteLen(name) + 3>>]
      [] type = "Blockarg" ->
           [type |-> type, name |-> name, name_l |-> <<at + 1, at + 1 + ByteLen(name)>>,
            expression_l |-> <<at, at + 1 + ByteLen(name)>>]
      [] type = "Restarg" ->
           [type |-> type, name |-> name,
            name_l |-> <<at + 1, at + 1 + ByteLen(name)>>,
            expression_l |-> <<at, at + 1 + ByteLen(name)>>]
      [] type = "Kwrestarg" ->
           [type |-> type, name |-> name,
            name_l |-> <<at + 2, at + 2 + ByteLen(name)>>,
            expression_l |-> <<at, at + 2 + ByteLen(name)>>]

Nameless(type, at) ==
    CASE type = "Restarg" ->
           [type |-> type, name |-> <<>>, name_l |-> <<>>, expression_l |-> <<at, at + 1>>]
      [] type = "Kwrestarg" ->
           [type |-> type, name |-> <<>>, name_l |-> <<>>, expression_l |-> <<at, at + 2>>]
      [] type = "ForwardArg" -> [type |-> type, expression_l |-> <<at, at + 3>>]
      [] type = "Kwnilarg" -> [type |-> type, name_l |-> <<at + 2, at + 5>>,
                               expression_l |-> <<at, at + 5>>]

Inner(names, at) == [j \in 1..Len(names) |-> Param("Arg", names[j], at + 1 + 3 * (j - 1))]

Entries(at) ==
    {Param(type, name, at) : type \in NamedArgs \cup OptionallyNamedArgs, name \in ParamNames}
    \cup {Nameless(type, at) : type \in {"Restarg", "Kwrestarg", "ForwardArg", "Kwnilarg"}}
    \cup {[type |-> "Mlhs", items |-> Inner(names, at), begin_l |-> <<<<at, at + 1>>>>,
           end_l |-> <<<<at + 8, at + 9>>>>, expression_l |-> <<at, at + 9>>] :
             names \in [1..1 -> ParamNames] \cup [1..2 -> ParamNames]}
    \cup {[type |-> "Procarg0", args |-> Inner(names, at), begin_l |-> <<<<at, at + 1>>>>,
           end_l |-> <<<<at + 8, at + 9>>>>, expression_l |-> <<at, at + 9>>] :
             names \in [1..1 -> ParamNames] \cup [1..2 -> ParamNames]}

RECURSIVE ParamListsOf(_)
ParamListsOf(k) ==
    IF k = 0 THEN {<<>>}
    ELSE {Append(list, entry) : list \in ParamListsOf(k - 1), entry \in Entries(10 * k)}

ParamLists(n) == UNION {ParamListsOf(k) : k \in 0..n}

LParen == Token("tLPAREN2", <<"(">>, 0, 1)
RParen == Token("tRPAREN", <<")">>, 10 * (MaxArgs + 1), 10 * (MaxArgs + 1) + 1)

(* One call of args on a new builder. *)
Args ==
    /\ pc = "builder"
    /\ ~ret.called
    /\ \E list \in ParamLists(MaxArgs), parens \in BOOLEAN :
          LET Returned(r) ==
                  /\ builder' = r.b
                  /\ ret' = [called |-> TRUE, op |-> "args",
                             node |-> [type |-> "ParamList", args |-> list,
                                       parens |-> parens],
                             pre |-> builder, ok |-> r.ok, result |-> r.node]
          IN  Returned(args(builder, IF parens THEN <<LParen>> ELSE <<>>, list,
                            IF parens THEN <<RParen>> ELSE <<>>))
    /\ UNCHANGED <<lexer, tokens, last, pc>>

NextArgs == Args

SpecArgs == InitBuilder /\ [][NextArgs]_vars

(* The diagnostics recorded by the last call of a builder entry point. *)
Recorded ==
    SubSeq(builder.diagnostics, Len(ret.pre.diagnostics) + 1, Len(builder.diagnostics))

RECURSIVE Flatten(_)
Flatten(list) ==
    IF list = <<>> THEN <<>>
    ELSE LET p == Head(list)
         IN  (IF p.type = "Mlhs" THEN Flatten(p.items)
              ELSE IF p.type = "Procarg0" THEN Flatten(p.args)
              ELSE IF p.type \in NamedArgs THEN <<[name |-> <<p.name>>, node |-> p]>>
              ELSE IF p.type \in OptionallyNamedArgs
              THEN <<[name |-> as_ref(p.name), node |-> p]>>
              ELSE <<>>) \o Flatten(Tail(list))

NameRange(p) ==
    IF "name_l" \notin DOMAIN p THEN p.expression_l ELSE p.name_l

IsDuplicate(flat, k) ==
    /\ flat[k].name # <<>>
    /\ flat[k].name[1][1] # "_"
    /\ \E j \in 1..(k - 1) : flat[j].name = flat[k].name

RECURSIVE DuplicateErrors(_, _)
DuplicateErrors(flat, k) ==
    IF k > Len(flat) THEN <<>>
    ELSE (IF IsDuplicate(flat, k)
          THEN <<Diag("Error", <<"DuplicatedArgumentName">>, NameRange(flat[k].node)[1],
                      NameRange(flat[k].node)[2])>>
          ELSE <<>>) \o DuplicateErrors(flat, k + 1)

IsArgsCall == ret.called /\ ret.op = "args"

(* C11: args records one DuplicatedArgumentName error for every parameter *)
(* whose name equals the name of an earlier parameter and does not start  *)
(* with `_`, at the later parameter's name range, and nothing else.       *)
C11_Duplicates ==
    IsArgsCall =>
        /\ ret.result.type # "panic"
        /\ Recorded = DuplicateErrors(Flatten(ret.node.args), 1)

(* args(`é`, `é`) panics at the slice of the first byte of the name and   *)
(* records no diagnostic.                                                 *)
C11_PanicOnTwoByteName ==
    /\ IsArgsCall
    /\ ret.node.args = <<Param("Arg", <<E_ACUTE>>, 10), Param("Arg", <<E_ACUTE>>, 20)>>
    /\ ret.result.type = "panic"
    /\ Recorded = <<>>

----------------------------------------------------------------------------
(* nth_ref: `$N`.  N is parsed as a usize of 64 bits; numbers are kept as *)
(* digit sequences without leading zeros, which hold values of any size.  *)

MAX_NTH_REF == 1073741823

MaxDigits == 4

USIZE_MAX_DIGITS ==
    <<"1", "8", "4", "4", "6", "7", "4", "4", "0", "7",
      "3", "7", "0", "9", "5", "5", "1", "6", "1", "5">>

DigitValue(d) == CHOOSE n \in 0..9 : <<"0", "1", "2", "3", "4", "5", "6", "7", "8", "9">>[n + 1] = d

RECURSIVE ToDigits(_)
ToDigits(n) ==
    IF n < 10 THEN <<(<<"0", "1", "2", "3", "4", "5", "6", "7", "8", "9">>)[n + 1]>>
    ELSE Append(ToDigits(n \div 10), (<<"0", "1", "2", "3", "4", "5", "6", "7", "8", "9">>)[(n % 10) + 1])

RECURSIVE StripZeros(_)
StripZeros(ds) ==
    IF Len(ds) > 1 /\ ds[1] = "0" THEN StripZeros(Tail(ds)) ELSE ds

(* a > b, for digit sequences without leading zeros *)
RECURSIVE DigitsGreater(_, _)
DigitsGreater(a, b) ==
    IF Len(a) # Len(b) THEN Len(a) > Len(b)
    ELSE IF a = <<>> THEN FALSE
    ELSE IF a[1] # b[1] THEN DigitValue(a[1]) > DigitValue(b[1])
    ELSE DigitsGreater(Tail(a), Tail(b))

(* str::parse::<usize>: one leading `+` is taken as a sign; Err (<<>>)   *)
(* when no byte is left after it, on a byte that is no digit and on a     *)
(* value above usize::MAX; Ok (<<n>>) otherwise.                          *)
parse_usize(name) ==
    LET Unsigned(digits) ==
            IF digits = <<>> \/ \E i \in 1..Len(digits) : ~is_digit(digits[i]) THEN <<>>
            ELSE IF DigitsGreater(StripZeros(digits), USIZE_MAX_DIGITS) THEN <<>>
            ELSE <<StripZeros(digits)>>
    IN  IF Len(name) > 1 /\ name[1] = "+" THEN Unsigned(Tail(name)) ELSE Unsigned(name)

value(token) == token.value

builder_warn(b, message, range) ==
    [b EXCEPT !.diagnostics = Append(@, Diag("Warning", message, range[1], range[2]))]

nth_refMutant(b, token) ==
    LET expression_l == loc(token)
        name == Tail(value(token))
        Parsed(parsed) ==
            IF parsed = <<>> \/ ~DigitsGreater(ToDigits(MAX_NTH_REF), parsed[1])
            THEN builder_warn(b, <<"NthRefIsTooBig", name>>, expression_l)
            ELSE b
    IN  Ok(Parsed(parse_usize(name)),
           [type |-> "NthRef", name |-> name, expression_l |-> expression_l])

nth_ref(b, token) ==
    LET expression_l == loc(token)
        name == Tail(value(token))
        Parsed(parsed) ==
            IF parsed = <<>> \/ DigitsGreater(parsed[1], ToDigits(MAX_NTH_REF))
            THEN builder_warn(b, <<"NthRefIsTooBig", name>>, expression_l)
            ELSE b
    IN  Ok(Parsed(parse_usize(name)),
           [type |-> "NthRef", name |-> name, expression_l |-> expression_l])

(* The digit sequences given to nth_ref: every sequence of up to          *)
(* MaxDigits digits out of 0, 1 and 9, and the numbers around 2^30 and    *)
(* around 2^64, with and without leading zeros.                           *)
Around(prefix) == {Append(prefix, d) : d \in Digits}

NthRefNames ==
    UNION {[1..k -> {"0", "1", "9"}] : k \in 1..MaxDigits}
    \cup Around(SubSeq(ToDigits(MAX_NTH_REF), 1, 9))
    \cup {<<"0", "0">> \o n : n \in Around(SubSeq(ToDigits(MAX_NTH_REF), 1, 9))}
    \cup Around(SubSeq(USIZE_MAX_DIGITS, 1, 19))
    \cup {<<"0">> \o n : n \in Around(SubSeq(USIZE_MAX_DIGITS, 1, 19))}
    \cup {USIZE_MAX_DIGITS \o <<"0">>, ToDigits(MAX_NTH_REF) \o <<"0">>}

(* One call of nth_ref on a new builder. *)
NthRef ==
    /\ pc = "builder"
    /\ ~ret.called
    /\ \E name \in NthRefNames :
          LET token == Token("tNTH_REF", <<"$">> \o name, 0, Len(name) + 1)
              Returned(r) ==
                  /\ builder' = r.b
                  /\ ret' = [called |-> TRUE, op |-> "nth_ref", node |-> token,
                             pre |-> builder, ok |-> r.ok, result |-> r.node]
          IN  Returned(nth_ref(builder, token))
    /\ UNCHANGED <<lexer, tokens, last, pc>>

NextNthRef == NthRef

SpecNthRef == InitBuilder /\ [][NextNthRef]_vars

IsNthRefCall == ret.called /\ ret.op = "nth_ref"

NthRefDigits == StripZeros(Tail(ret.node.value))

RECURSIVE NatOf(_)
NatOf(ds) == IF ds = <<>> THEN 0 ELSE 10 * NatOf(SubSeq(ds, 1, Len(ds) - 1)) + DigitValue(ds[Len(ds)])

(* N > 2^30 - 1, by the number of digits of N and, for a number of ten    *)
(* digits, by its first nine digits and its last one.                     *)
ExceedsMaxNthRef ==
    \/ Len(NthRefDigits) > 10
    \/ /\ Len(NthRefDigits) = 10
       /\ \/ NatOf(SubSeq(NthRefDigits, 1, 9)) > MAX_NTH_REF \div 10
          \/ /\ NatOf(SubSeq(NthRefDigits, 1, 9)) = MAX_NTH_REF \div 10
             /\ DigitValue(NthRefDigits[10]) > MAX_NTH_REF % 10

----------------------------------------------------------------------------
(* The sign of a first argument. *)

(* The last call skipped blanks and then read `+` or `-` as the first     *)
(* byte of its token. *)
SignByte == last.pre.input[last.token.begin + 1]
AfterSign ==
    IF last.token.begin + 1 < Len(last.pre.input)
    THEN last.pre.input[last.token.begin + 2] ELSE EOF

IsSignCall ==
    /\ IsDispatched
    /\ last.token.kind # "END_OF_INPUT"
    /\ last.token.begin < Len(last.pre.input)
    /\ SignByte \in {"+", "-"}
    /\ \A i \in (last.pre.pcur + 1)..last.token.begin : last.pre.input[i] \in {SP, TAB}

(* The sign has a blank before it and none after it, in an argument state *)
(* that is not the state after an operator, and no `=` follows it.        *)
IsSpaceArgSign ==
    /\ IsSignCall
    /\ last.pre.pcur < last.token.begin
    /\ is_arg(last.pre.lex_state)
    /\ ~is_after_operator(last.pre.lex_state)
    /\ AfterSign # EOF
    /\ ~is_space(AfterSign)
    /\ AfterSign # "="

LexerRecorded ==
    SubSeq(lexer.diagnostics, Len(last.pre.diagnostics) + 1, Len(lexer.diagnostics))

FirstArgumentWarning ==
    Diag("Warning", <<"AmbiguousFirstArgument", SignByte>>,
         last.token.begin, last.token.begin + 1)

UnaryKind ==
    IF SignByte = "+" THEN IF is_digit(AfterSign) THEN "tINTEGER" ELSE "tUPLUS"
    ELSE IF is_digit(AfterSign) THEN "tUMINUS_NUM" ELSE "tUMINUS"

(* What the arms for `+` and `-` do with a first argument's sign: the one *)
(* warning, and the sign lexed as unary. tUPLUS, tUMINUS and tUMINUS_NUM  *)
(* are returned by the arm itself, one byte long and in EXPR_BEG; for `+` *)
(* before a digit the arm sets EXPR_BEG and hands over to the numeric     *)
(* scanner, which returns the number with its sign, and the state that    *)
(* scanner leaves is outside the statement.                               *)
LexedAsUnary ==
    /\ LexerRecorded = <<FirstArgumentWarning>>
    /\ last.token.kind = UnaryKind
    /\ last.token.kind \in {"tUPLUS", "tUMINUS", "tUMINUS_NUM"} =>
          /\ lexer.lex_state = EXPR_BEG
          /\ last.token.end = last.token.begin + 1
    /\ last.token.kind = "tINTEGER" =>
          /\ last.token.value[1] = "+"
          /\ is_digit(last.token.value[2])

C13_LambdaArrow ==
    /\ IsSpaceArgSign
    /\ SignByte = "-" /\ AfterSign = ">"
    /\ last.token.kind = "tLAMBDA"
    /\ lexer.diagnostics = <<>>

----------------------------------------------------------------------------
(* Indented heredocs: Builder::dedent_string and Builder::heredoc_dedent. *)

TAB_WIDTH == 8

MaxDedentLen == 3
MaxWidth == 9

(* The loop of dedent_string: the number of bytes it strips, from the     *)
(* i-th byte (0-based) on, standing at column col.                        *)
RECURSIVE dedent_loop(_, _, _, _)
dedent_loop(bytes, width, col, i) ==
    IF ~(i < Len(bytes) /\ col < width) THEN i
    ELSE IF bytes[i + 1] = SP THEN dedent_loop(bytes, width, col + 1, i + 1)
    ELSE IF bytes[i + 1] = TAB
         THEN IF TAB_WIDTH * (col \div TAB_WIDTH + 1) > TAB_WIDTH THEN i
              ELSE dedent_loop(bytes, width, TAB_WIDTH * (col \div TAB_WIDTH + 1), i + 1)
    ELSE i

dedent_stringMutant(bytes, width) == bytes

dedent_string(bytes, width) ==
    SubSeq(bytes, dedent_loop(bytes, width, 0, 0) + 1, Len(bytes))

(* heredoc_dedent changes the node in place: the node it leaves, or a     *)
(* panic for a node or a part that is no heredoc's.                       *)
heredoc_dedent(node, dedent_level) ==
    IF dedent_level = 0 THEN [panic |-> FALSE, node |-> node]
    ELSE IF dedent_level < 0 THEN [panic |-> TRUE, node |-> node]
    ELSE IF node.type \notin {"Heredoc", "XHeredoc"} THEN [panic |-> TRUE, node |-> node]
    ELSE IF \E i \in 1..Len(node.parts) : node.parts[i].type \notin {"Str", "Begin"}
         THEN [panic |-> TRUE, node |-> node]
    ELSE [panic |-> FALSE,
          node |-> [node EXCEPT !.parts =
                       [i \in 1..Len(node.parts) |->
                           IF node.parts[i].type = "Str"
                           THEN [node.parts[i] EXCEPT !.value = dedent_string(@, dedent_level)]
                           ELSE node.parts[i]]]]

(* The strings given to dedent_string: every string of up to MaxDedentLen *)
(* bytes out of space, tab and a letter, and strings whose blanks reach   *)
(* the next tab stop.                                                     *)
Spaces(n) == [i \in 1..n |-> SP]

DedentStrings ==
    UNION {[1..k -> {SP, TAB, "a"}] : k \in 0..MaxDedentLen}
    \cup {Spaces(TAB_WIDTH) \o <<TAB, "a">>, Spaces(TAB_WIDTH - 1) \o <<TAB, "a">>,
          Spaces(TAB_WIDTH + 1) \o <<"a">>, <<TAB, TAB, "a">>}

(* One call of dedent_string. *)
DedentString ==
    /\ pc = "builder"
    /\ ~ret.called
    /\ \E bytes \in DedentStrings, width \in 0..MaxWidth :
          ret' = [called |-> TRUE, op |-> "dedent_string",
                  node |-> [bytes |-> bytes, width |-> width],
                  pre |-> builder, ok |-> TRUE, result |-> dedent_string(bytes, width)]
    /\ UNCHANGED <<lexer, tokens, last, pc, builder>>

DedentPieces ==
    {<<>>, <<"a">>, <<SP, "a">>, <<SP, SP, "a">>, <<SP, SP, SP, SP, "a">>,
     <<TAB, "a">>, <<SP, TAB, SP, "a">>, Spaces(TAB_WIDTH) \o <<TAB, "a">>}

HeredocParts ==
    {[type |-> "Str", value |-> v] : v \in DedentPieces}
    \cup {[type |-> "Begin", value |-> <<>>]}

HeredocNodes ==
    {[type |-> t, parts |-> parts] :
        t \in {"Heredoc", "XHeredoc"},
        parts \in UNION {[1..k -> HeredocParts] : k \in 0..MaxArgs}}

(* The levels: none, the narrow ones, and one beyond the first tab stop.  *)
DedentLevels == 0..MaxDedentLen \cup {MaxWidth}

(* heredoc_dedent on a heredoc the parser has built. *)
HeredocDedent ==
    /\ pc = "builder"
    /\ ~ret.called
    /\ \E node \in HeredocNodes, dedent_level \in DedentLevels :
          LET Returned(r) ==
                  ret' = [called |-> TRUE, op |-> "heredoc_dedent",
                          node |-> [node |-> node, dedent_level |-> dedent_level],
                          pre |-> builder, ok |-> ~r.panic, result |-> r.node]
          IN  Returned(heredoc_dedent(node, dedent_level))
    /\ UNCHANGED <<lexer, tokens, last, pc, builder>>

(* heredoc_dedent once more, with the same level, on the node it left. *)
HeredocDedentAgain ==
    /\ pc = "builder"
    /\ ret.called
    /\ ret.op = "heredoc_dedent"
    /\ LET Returned(r) ==
               ret' = [ret EXCEPT !.op = "heredoc_dedent again",
                                  !.node = [node |-> ret.result,
                                            dedent_level |-> ret.node.dedent_level],
                                  !.ok = ~r.panic, !.result = r.node]
       IN  Returned(heredoc_dedent(ret.result, ret.node.dedent_level))
    /\ UNCHANGED <<lexer, tokens, last, pc, builder>>

NextDedent == DedentString \/ HeredocDedent \/ HeredocDedentAgain

SpecDedent == InitBuilder /\ [][NextDedent]_vars

IsDedentStringCall == ret.called /\ ret.op = "dedent_string"

(* The column reached after the first n bytes of a run of blanks. *)
RECURSIVE ColumnAfter(_, _)
ColumnAfter(bytes, n) ==
    IF n = 0 THEN 0
    ELSE IF bytes[n] = TAB
         THEN TAB_WIDTH * (ColumnAfter(bytes, n - 1) \div TAB_WIDTH + 1)
    ELSE ColumnAfter(bytes, n - 1) + 1

Stripped == Len(ret.node.bytes) - Len(ret.result)

(* C14: dedent_string strips a prefix of spaces and tabs, counted in      *)
(* columns from 0 with tab stops every TAB_WIDTH columns; the prefix      *)
(* never spans more than `width` columns, and it ends only at the end of  *)
(* the string, at the width, at a byte that is no blank, or at a tab      *)
(* that would cross the width.                                            *)
C14_DedentString ==
    IsDedentStringCall =>
        /\ Stripped \in 0..Len(ret.node.bytes)
        /\ ret.result = SubSeq(ret.node.bytes, Stripped + 1, Len(ret.node.bytes))
        /\ \A i \in 1..Stripped : ret.node.bytes[i] \in {SP, TAB}
        /\ ColumnAfter(ret.node.bytes, Stripped) <= ret.node.width
        /\ \/ Stripped = Len(ret.node.bytes)
           \/ ColumnAfter(ret.node.bytes, Stripped) = ret.node.width
           \/ ret.node.bytes[Stripped + 1] \notin {SP, TAB}
           \/ ColumnAfter(ret.node.bytes, Stripped + 1) > ret.node.width

(* dedent_string("\ta", 2) strips the tab: eight columns for a width of   *)
(* two.                                                                   *)
C14_TabCrossesWidth ==
    /\ IsDedentStringCall
    /\ ret.node = [bytes |-> <<TAB, "a">>, width |-> 2]
    /\ ret.result = <<"a">>

StartsBlank(part) == part.type = "Str" /\ part.value # <<>> /\ part.value[1] \in {SP, TAB}

(* The j-th byte of a part is one the loop of dedent_string strips at     *)
(* level d: a blank that starts at a column below d, and for a tab one    *)
(* that starts at a column below TAB_WIDTH, whatever d is.                *)
Strippable(bytes, d, j) ==
    /\ bytes[j] \in {SP, TAB}
    /\ ColumnAfter(bytes, j - 1) < d
    /\ bytes[j] = TAB => ColumnAfter(bytes, j - 1) < TAB_WIDTH

(* What one application at level d leaves of a part: the part without its *)
(* longest prefix of strippable bytes. Spaces alone are stripped up to    *)
(* column d; a tab takes the prefix to column TAB_WIDTH, beyond d when d  *)
(* is smaller.                                                            *)
StripsOnce(before, after, d) ==
    \E k \in 0..Len(before) :
        /\ after = SubSeq(before, k + 1, Len(before))
        /\ \A j \in 1..k : Strippable(before, d, j)
        /\ k = Len(before) \/ ~Strippable(before, d, k + 1)
        /\ (\A j \in 1..k : before[j] = SP) => k <= d
        /\ ColumnAfter(before, k) <= IF d > TAB_WIDTH THEN d ELSE TAB_WIDTH

C15_TabAgain ==
    /\ ret.called /\ ret.op = "heredoc_dedent again"
    /\ ret.node.dedent_level = 1
    /\ ret.node.node.parts = <<[type |-> "Str", value |-> <<TAB, SP, "a">>]>>
    /\ ret.result.parts = <<[type |-> "Str", value |-> <<SP, "a">>]>>

(* A tab at the first tab stop ends the first application at a level      *)
(* beyond it, and is stripped by the second.                              *)
C15_TabAtStop ==
    /\ ret.called /\ ret.op = "heredoc_dedent again"
    /\ ret.node.dedent_level = MaxWidth
    /\ ret.node.node.parts = <<[type |-> "Str", value |-> <<TAB, "a">>]>>
    /\ ret.pre = builder
    /\ ret.result.parts = <<[type |-> "Str", value |-> <<"a">>]>>

----------------------------------------------------------------------------
(* Entry points that validate and still return a node: symbol,            *)
(* symbol_internal and accessible.                                        *)

BYTE_FF == "0xFF"

(* StringValue::new: the bytes of the token, and whether they are UTF-8.  *)
StringValue_new(token) == [bytes |-> token.value, valid |-> is_utf8(token.value)]

validate_sym_value(b, val, range) ==
    IF ~val.valid THEN error(b, <<"InvalidSymbol", "UTF-8">>, range) ELSE b

symbol(b, start_t, value_t) ==
    LET expression_l == join(loc(start_t), loc(value_t))
        Validated(val) ==
            Ok(validate_sym_value(b, val, expression_l),
               [type |-> "Sym", name |-> val, begin_l |-> <<loc(start_t)>>,
                end_l |-> <<>>, expression_l |-> expression_l])
    IN  Validated(StringValue_new(value_t))

symbol_internal(b, symbol_t) ==
    LET expression_l == loc(symbol_t)
        Validated(val) ==
            Ok(validate_sym_value(b, val, expression_l),
               [type |-> "Sym", name |-> val, begin_l |-> <<>>,
                end_l |-> <<>>, expression_l |-> expression_l])
    IN  Validated(StringValue_new(symbol_t))

(* CurrentArgStack: the argument whose default value is being parsed, if  *)
(* any, innermost last.                                                   *)
current_arg_top(b) ==
    IF b.current_arg_stack = <<>> THEN <<>>
    ELSE b.current_arg_stack[Len(b.current_arg_stack)]

accessibleMutant(b, node) ==
    IF node.type = "Lvar"
    THEN LET checked == IF current_arg_top(b) = <<node.name>>
                        THEN error(b, <<"CircularArgumentReference", node.name>>, node.expression_l)
                        ELSE b
         IN IF is_declared(b, node.name)
            THEN Ok(checked, [type |-> "Lvar", name |-> node.name, expression_l |-> node.expression_l])
            ELSE Ok(checked, [type |-> "Send", method_name |-> node.name,
                              selector_l |-> <<node.expression_l>>,
                              expression_l |-> node.expression_l])
    ELSE Ok(b, node)

accessible(b, node) ==
    IF node.type = "Lvar"
    THEN IF is_declared(b, node.name)
         THEN Ok(IF current_arg_top(b) = <<node.name>>
                 THEN error(b, <<"CircularArgumentReference", node.name>>, node.expression_l)
                 ELSE b,
                 [type |-> "Lvar", name |-> node.name, expression_l |-> node.expression_l])
         ELSE Ok(b, [type |-> "Send", method_name |-> node.name,
                     selector_l |-> <<node.expression_l>>,
                     expression_l |-> node.expression_l])
    ELSE Ok(b, node)

LocalNames == {"a", "b"}

(* The parser declares a local variable. *)
Declare ==
    /\ pc = "builder"
    /\ ~ret.called
    /\ \E name \in LocalNames :
          /\ ~is_declared(builder, name)
          /\ builder' = declare(builder, name)
    /\ UNCHANGED <<lexer, tokens, last, pc, ret>>

(* The parser enters the default value of an optional argument, which it  *)
(* has declared.                                                          *)
EnterDefault ==
    /\ pc = "builder"
    /\ ~ret.called
    /\ builder.current_arg_stack = <<>>
    /\ \E name \in LocalNames :
          builder' = [declare(builder, name) EXCEPT !.current_arg_stack = Append(@, <<name>>)]
    /\ UNCHANGED <<lexer, tokens, last, pc, ret>>

SymbolValues == UNION {[1..k -> {"a", BYTE_FF}] : k \in 1..MaxArgs}

Symbol ==
    /\ pc = "builder"
    /\ ~ret.called
    /\ \E val \in SymbolValues :
          LET start_t == Token("tSYMBEG", <<":">>, 0, 1)
              value_t == Token("tIDENTIFIER", val, 1, 1 + Len(val))
              Returned(r) ==
                  /\ builder' = r.b
                  /\ ret' = [called |-> TRUE, op |-> "symbol", node |-> value_t,
                             pre |-> builder, ok |-> r.ok, result |-> r.node]
          IN  Returned(symbol(builder, start_t, value_t))
    /\ UNCHANGED <<lexer, tokens, last, pc>>

SymbolInternal ==
    /\ pc = "builder"
    /\ ~ret.called
    /\ \E val \in SymbolValues :
          LET symbol_t == Token("tSYMBOL", val, 0, Len(val))
              Returned(r) ==
                  /\ builder' = r.b
                  /\ ret' = [called |-> TRUE, op |-> "symbol_internal", node |-> symbol_t,
                             pre |-> builder, ok |-> r.ok, result |-> r.node]
          IN  Returned(symbol_internal(builder, symbol_t))
    /\ UNCHANGED <<lexer, tokens, last, pc>>

Accessible ==
    /\ pc = "builder"
    /\ ~ret.called
    /\ \E node \in {[type |-> t, name |-> n, expression_l |-> <<at, at + 1>>] :
                       t \in {"Lvar", "Ivar"}, n \in LocalNames, at \in 0..MaxArgs} :
          LET Returned(r) ==
                  /\ builder' = r.b
                  /\ ret' = [called |-> TRUE, op |-> "accessible", node |-> node,
                             pre |-> builder, ok |-> r.ok, result |-> r.node]
          IN  Returned(accessible(builder, node))
    /\ UNCHANGED <<lexer, tokens, last, pc>>

(* args on the parameter list of a method, before anything is declared. *)
FirstArgs == builder = NewBuilder /\ Args

NextSentinel == Declare \/ EnterDefault \/ Symbol \/ SymbolInternal \/ Accessible \/ FirstArgs

SpecSentinel == InitBuilder /\ [][NextSentinel]_vars

RecordedError == \E i \in 1..Len(Recorded) : Recorded[i].level = "Error"

(* C16: a call of an entry point that records an Error returns Err(()),   *)
(* not a node.                                                            *)
C16_ErrorGivesErr == ret.called /\ RecordedError => ~ret.ok

(* symbol on a value that is not UTF-8 records InvalidSymbol and returns  *)
(* the Sym node.                                                          *)
C16_SymbolReturnsNode ==
    /\ ret.called /\ ret.op = "symbol"
    /\ Recorded = <<Diag("Error", <<"InvalidSymbol", "UTF-8">>, 0, 2)>>
    /\ ret.ok
    /\ ret.result.type = "Sym"
    /\ ret.result.name = [bytes |-> <<BYTE_FF>>, valid |-> FALSE]

----------------------------------------------------------------------------
(* Entry points that return Result: match_var with its checks,            *)
(* check_duplicate_pattern_key and value_expr.                            *)

(* The characters of the names used as pattern variables and keys. *)
Chars(name) ==
    CASE name = "a" -> <<"a">>
      [] name = "_a" -> <<"_", "a">>
      [] name = "A" -> <<"A">>
      [] name = "a-" -> <<"a", "-">>
      [] name = "_1" -> <<"_", "1">>
      [] name = "_9" -> <<"_", "9">>

PatternNames == {"a", "_a", "A"}
PatternKeys == {"a", "_a"}

check_lvar_name(b, name, range) ==
    IF (Chars(name)[1] \in Lower \/ Chars(name)[1] = "_")
       /\ \A i \in 2..Len(Chars(name)) : Chars(name)[i] \in Lower \cup Upper \cup Digits \cup {"_"}
    THEN Ok(b, [type |-> "none"])
    ELSE Err(error(b, <<"KeyMustBeValidAsLocalVariable">>, range))

check_duplicate_pattern_variable(b, name, range) ==
    IF Chars(name)[1] = "_" THEN Ok(b, [type |-> "none"])
    ELSE IF name \in b.pattern_variables
    THEN Err(error(b, <<"DuplicateVariableName">>, range))
    ELSE Ok([b EXCEPT !.pattern_variables = @ \cup {name}], [type |-> "none"])

check_duplicate_pattern_keyMutant(b, name, range) ==
    IF Chars(name)[1] = "_" THEN Ok(b, [type |-> "none"])
    ELSE IF name \in b.pattern_hash_keys
    THEN Err(error(b, <<"DuplicateKeyName">>, range))
    ELSE Ok([b EXCEPT !.pattern_hash_keys = @ \cup {name}], [type |-> "none"])

check_duplicate_pattern_key(b, name, range) ==
    IF name \in b.pattern_hash_keys
    THEN Err(error(b, <<"DuplicateKeyName">>, range))
    ELSE Ok([b EXCEPT !.pattern_hash_keys = @ \cup {name}], [type |-> "none"])

match_var(b, name_t) ==
    LET name_l == loc(name_t)
        Checked(c2) ==
            IF ~c2.ok THEN Err(c2.b)
            ELSE Ok(declare(c2.b, value(name_t)),
                    [type |-> "MatchVar", name |-> value(name_t),
                     name_l |-> name_l, expression_l |-> name_l])
        Named(c1) ==
            IF ~c1.ok THEN Err(c1.b)
            ELSE Checked(check_duplicate_pattern_variable(c1.b, value(name_t), name_l))
    IN  Named(check_lvar_name(b, value(name_t), name_l))

(* Nodes as value_expr sees them: a type, a range, and the children it    *)
(* looks at, each present or absent (the statements of Begin and KwBegin, *)
(* the branches of If, IfMod and IfTernary, the sides of And and Or, the  *)
(* value of InMatch).                                                     *)
Kid(node, i) == node.kids[i][1]

RECURSIVE void_value(_)
void_value(node) ==
    LET check_condition(if_true, if_false) ==
            IF void_value(if_true) # <<>> /\ void_value(if_false) # <<>>
            THEN <<if_true>> ELSE <<>>
    IN  CASE node.type \in {"Return", "Break", "Next", "Redo", "Retry"} -> <<node>>
          [] node.type = "InMatch" -> void_value(Kid(node, 1))
          [] node.type \in {"Begin", "KwBegin"} ->
               IF node.kids = <<>> THEN <<>> ELSE void_value(Kid(node, Len(node.kids)))
          [] node.type \in {"If", "IfMod"} ->
               IF node.kids[1] = <<>> \/ node.kids[2] = <<>> THEN <<>>
               ELSE check_condition(Kid(node, 1), Kid(node, 2))
          [] node.type = "IfTernary" -> check_condition(Kid(node, 1), Kid(node, 2))
          [] node.type \in {"And", "Or"} -> void_value(Kid(node, 1))
          [] OTHER -> <<>>

value_exprMutant(b, node) ==
    LET Found(void_node) ==
            IF void_node # <<>> THEN Err(b) ELSE Ok(b, [type |-> "none"])
    IN  Found(void_value(node))

value_expr(b, node) ==
    LET Found(void_node) ==
            IF void_node # <<>>
            THEN Err(error(b, <<"VoidValueExpression">>, void_node[1].expression_l))
            ELSE Ok(b, [type |-> "none"])
    IN  Found(void_value(node))

Leaf(type, at) == [type |-> type, expression_l |-> <<at, at + 1>>, kids |-> <<>>]

Firsts == {Leaf(t, 1) : t \in {"Return", "Int"}}
Seconds == {Leaf(t, 3) : t \in {"Break", "Int"}}

ValueNodes ==
    Firsts
    \cup {[type |-> "Begin", expression_l |-> <<0, 5>>, kids |-> kids] :
             kids \in {<<>>} \cup {<<<<x>>, <<y>>>> : x \in Firsts, y \in Seconds}}
    \cup {[type |-> "If", expression_l |-> <<0, 5>>, kids |-> <<x, y>>] :
             x \in {<<>>, <<Leaf("Return", 1)>>},
             y \in {<<>>, <<Leaf("Break", 3)>>, <<Leaf("Int", 3)>>}}
    \cup {[type |-> "And", expression_l |-> <<0, 5>>, kids |-> <<<<x>>, <<y>>>>] :
             x \in Firsts, y \in {Leaf("Break", 3)}}
    \cup {[type |-> "KwBegin", expression_l |-> <<0, 6>>,
            kids |-> <<<<[type |-> "IfTernary", expression_l |-> <<0, 5>>,
                         kids |-> <<<<Leaf("Return", 1)>>, <<y>>>>]>>>>] :
             y \in Seconds}

MatchVar ==
    /\ pc = "builder"
    /\ Len(builder.diagnostics) < MaxDiagnostics
    /\ \E name \in PatternNames :
          LET name_t == Token("tIDENTIFIER", name, 0, Len(Chars(name)))
              Returned(r) ==
                  /\ builder' = r.b
                  /\ ret' = [called |-> TRUE, op |-> "match_var", node |-> name_t,
                             pre |-> builder, ok |-> r.ok, result |-> r.node]
          IN  Returned(match_var(builder, name_t))
    /\ UNCHANGED <<lexer, tokens, last, pc>>

CheckDuplicatePatternKey ==
    /\ pc = "builder"
    /\ Len(builder.diagnostics) < MaxDiagnostics
    /\ \E name \in PatternKeys :
          LET Returned(r) ==
                  /\ builder' = r.b
                  /\ ret' = [called |-> TRUE, op |-> "check_duplicate_pattern_key",
                             node |-> Token("tLABEL", name, 0, Len(Chars(name))),
                             pre |-> builder, ok |-> r.ok, result |-> r.node]
          IN  Returned(check_duplicate_pattern_key(builder, name, <<0, Len(Chars(name))>>))
    /\ UNCHANGED <<lexer, tokens, last, pc>>

ValueExpr ==
    /\ pc = "builder"
    /\ Len(builder.diagnostics) < MaxDiagnostics
    /\ \E node \in ValueNodes :
          LET Returned(r) ==
                  /\ builder' = r.b
                  /\ ret' = [called |-> TRUE, op |-> "value_expr", node |-> node,
                             pre |-> builder, ok |-> r.ok, result |-> r.node]
          IN  Returned(value_expr(builder, node))
    /\ UNCHANGED <<lexer, tokens, last, pc>>

NextResult == Assignable \/ MatchVar \/ CheckDuplicatePatternKey \/ ValueExpr

SpecResult == InitBuilder /\ [][NextResult]_vars

(* C17: a call that returns Err(()) has appended at least one Error to    *)
(* the diagnostics, and the diagnostics recorded before the call are      *)
(* still there, in their order, before what the call appended.            *)
C17_ErrHasError ==
    ret.called /\ ~ret.ok =>
        /\ ret.result.type = "none"
        /\ Len(builder.diagnostics) > Len(ret.pre.diagnostics)
        /\ SubSeq(builder.diagnostics, 1, Len(ret.pre.diagnostics)) = ret.pre.diagnostics
        /\ RecordedError

(* A second Err after a first: value_expr on a `return` after assignable  *)
(* on `nil`.                                                              *)
C17_Witness ==
    /\ ret.called /\ ~ret.ok /\ ret.op = "value_expr"
    /\ Len(ret.pre.diagnostics) = 1
    /\ ret.pre.diagnostics[1].message = <<"CantAssignToNil">>
    /\ builder.diagnostics[1].message = <<"CantAssignToNil">>
    /\ builder.diagnostics[2] = Diag("Error", <<"VoidValueExpression">>, 1, 2)

----------------------------------------------------------------------------
(* check_condition: the condition of an `if`, with a regexp turned into a *)
(* match of the current line and a range into a flip-flop, all the way    *)
(* down through Begin, And and Or. A node is its type, its expression     *)
(* range, its other ranges and its children, each an Option.              *)

RECURSIVE check_condition(_)
check_conditionMutant(cond) ==
    LET Checked(kid) == IF kid = <<>> THEN <<>> ELSE <<check_condition(kid[1])>>
    IN  CASE cond.type = "Begin" ->
               IF Len(cond.kids) = 1
               THEN [cond EXCEPT !.kids = <<Checked(cond.kids[1])>>]
               ELSE cond
          [] cond.type \in {"And", "Or"} ->
               [cond EXCEPT !.kids = <<Checked(cond.kids[1]), cond.kids[2]>>]
          [] cond.type \in {"Irange", "Erange"} ->
               [cond EXCEPT !.type = IF cond.type = "Irange" THEN "IFlipFlop" ELSE "EFlipFlop",
                            !.kids = <<Checked(cond.kids[1]), Checked(cond.kids[2])>>]
          [] cond.type = "Regexp" ->
               [type |-> "MatchCurrentLine", expression_l |-> cond.expression_l,
                other_l |-> <<>>, kids |-> <<<<cond>>>>]
          [] OTHER -> cond

check_condition(cond) ==
    LET Checked(kid) == IF kid = <<>> THEN <<>> ELSE <<check_condition(kid[1])>>
    IN  CASE cond.type = "Begin" ->
               IF Len(cond.kids) = 1
               THEN [cond EXCEPT !.kids = <<Checked(cond.kids[1])>>]
               ELSE cond
          [] cond.type \in {"And", "Or"} ->
               [cond EXCEPT !.kids = <<Checked(cond.kids[1]), Checked(cond.kids[2])>>]
          [] cond.type \in {"Irange", "Erange"} ->
               [cond EXCEPT !.type = IF cond.type = "Irange" THEN "IFlipFlop" ELSE "EFlipFlop",
                            !.kids = <<Checked(cond.kids[1]), Checked(cond.kids[2])>>]
          [] cond.type = "Regexp" ->
               [type |-> "MatchCurrentLine", expression_l |-> cond.expression_l,
                other_l |-> <<>>, kids |-> <<<<cond>>>>]
          [] OTHER -> cond

----------------------------------------------------------------------------
(* Range maps: when, in_pattern, condition, rescue_body, array, and the   *)
(* string builders over collection_map and string_map.                    *)

NoNode == [type |-> "none"]
Unreachable == [type |-> "panic"]

when(when_t, patterns, then_t, body) ==
    LET expr_end_l ==
            IF body # <<>> THEN body[1].expression_l
            ELSE IF patterns # <<>> THEN patterns[Len(patterns)].expression_l
            ELSE loc(when_t)
    IN  [type |-> "When", patterns |-> patterns, body |-> body,
         keyword_l |-> loc(when_t), begin_l |-> loc(then_t),
         expression_l |-> join(loc(when_t), expr_end_l)]

(* The first of the options that is there, in the order of or_else. *)
RECURSIVE or_else(_)
or_else(options) ==
    IF options = <<>> THEN <<>>
    ELSE IF Head(options) # <<>> THEN Head(options)
    ELSE or_else(Tail(options))

condition(cond_t, cond, then_t, if_true, else_t, if_false, end_t) ==
    LET end_l == or_else(<<maybe_loc(end_t), maybe_node_expr(if_false, 1), maybe_loc(else_t),
                           maybe_node_expr(if_true, 1), <<loc(then_t)>>>>)[1]
    IN  [type |-> "If", cond |-> check_condition(cond), if_true |-> if_true,
         if_false |-> if_false, keyword_l |-> loc(cond_t), begin_l |-> loc(then_t),
         else_l |-> maybe_loc(else_t), end_l |-> maybe_loc(end_t),
         expression_l |-> join(loc(cond_t), end_l)]

rescue_body(rescue_t, exc_list, assoc_t, exc_var, then_t, body) ==
    LET end_l == or_else(<<maybe_node_expr(body, 1), maybe_loc(then_t),
                           maybe_node_expr(exc_var, 1), maybe_node_expr(exc_list, 1),
                           <<loc(rescue_t)>>>>)[1]
    IN  [type |-> "RescueBody", exc_list |-> exc_list, exc_var |-> exc_var, body |-> body,
         keyword_l |-> loc(rescue_t), begin_l |-> maybe_loc(then_t),
         assoc_l |-> maybe_loc(assoc_t),
         expression_l |-> join(loc(rescue_t), end_l)]

in_pattern(in_t, pattern, guard, then_t, body) ==
    [type |-> "InPattern", pattern |-> pattern, guard |-> guard, body |-> body,
     keyword_l |-> loc(in_t), begin_l |-> loc(then_t),
     expression_l |-> join(or_else(<<maybe_node_expr(body, 1), maybe_node_expr(guard, 1),
                                     <<pattern.expression_l>>>>)[1],
                           loc(in_t))]

array(begin_t, elements, end_t) ==
    LET Mapped(m) ==
            IF m.expression_l = <<>> THEN Unreachable
            ELSE [type |-> "Array", elements |-> elements, begin_l |-> m.begin_l,
                  end_l |-> m.end_l, expression_l |-> m.expression_l[1]]
    IN  Mapped(collection_map(begin_t, elements, end_t))

starts_with_heredoc(val) == Len(val) >= 2 /\ val[1] = "<" /\ val[2] = "<"

(* StringMap: HeredocMap for a literal opened by `<<`, CollectionMap for  *)
(* the others.                                                            *)
string_map(begin_t, parts, end_t) ==
    IF begin_t # <<>> /\ starts_with_heredoc(begin_t[1].value)
    THEN IF end_t = <<>> THEN [map |-> "panic"]
         ELSE [map |-> "HeredocMap",
               heredoc_body_l |-> IF collection_expr(parts) # <<>>
                                  THEN collection_expr(parts)[1] ELSE loc(end_t[1]),
               heredoc_end_l |-> loc(end_t[1]),
               expression_l |-> loc(begin_t[1])]
    ELSE [map |-> "CollectionMap"] @@ collection_map(begin_t, parts, end_t)

str_node(begin_t, val, parts, end_t) ==
    LET Mapped(m) ==
            IF m.map = "panic" THEN Unreachable
            ELSE IF m.map = "HeredocMap"
            THEN [type |-> "Heredoc", parts |-> parts,
                  heredoc_body_l |-> m.heredoc_body_l, heredoc_end_l |-> m.heredoc_end_l,
                  expression_l |-> m.expression_l]
            ELSE IF m.expression_l = <<>> THEN Unreachable
            ELSE [type |-> "Str", value |-> val, begin_l |-> m.begin_l, end_l |-> m.end_l,
                  expression_l |-> m.expression_l[1]]
    IN  Mapped(string_map(begin_t, parts, end_t))

string_compose(begin_t, parts, end_t) ==
    LET Mapped(m) ==
            IF m.map = "panic" THEN Unreachable
            ELSE IF m.map = "HeredocMap"
            THEN [type |-> "Heredoc", parts |-> parts,
                  heredoc_body_l |-> m.heredoc_body_l, heredoc_end_l |-> m.heredoc_end_l,
                  expression_l |-> m.expression_l]
            ELSE IF m.expression_l = <<>> THEN Unreachable
            ELSE [type |-> "Dstr", parts |-> parts, begin_l |-> m.begin_l, end_l |-> m.end_l,
                  expression_l |-> m.expression_l[1]]
    IN  IF parts = <<>>
        THEN str_node(begin_t, [bytes |-> <<>>, valid |-> TRUE], parts, end_t)
        ELSE IF Len(parts) = 1 /\ parts[1].type \in {"Str", "Dstr", "Heredoc"}
                /\ begin_t = <<>> /\ end_t = <<>>
        THEN parts[1]
        ELSE IF Len(parts) = 1 /\ parts[1].type = "Str"
        THEN str_node(begin_t, parts[1].value, parts, end_t)
        ELSE IF Len(parts) = 1 /\ parts[1].type \in {"Dstr", "Heredoc"} THEN Unreachable
        ELSE Mapped(string_map(begin_t, parts, end_t))

xstring_compose(begin_t, parts, end_t) ==
    IF starts_with_heredoc(value(begin_t))
    THEN [type |-> "XHeredoc", parts |-> parts,
          heredoc_body_l |-> IF collection_expr(parts) # <<>>
                             THEN collection_expr(parts)[1] ELSE loc(end_t),
          heredoc_end_l |-> loc(end_t),
          expression_l |-> loc(begin_t)]
    ELSE [type |-> "Xstr", parts |-> parts, begin_l |-> loc(begin_t), end_l |-> loc(end_t),
          expression_l |-> join(loc(begin_t), loc(end_t))]

(* The constituents handed to the range-map builders, laid out in source  *)
(* order: the opening token at 0, the i-th child at 10 * i, the closing   *)
(* token after the last slot.                                             *)
ChildAt(type, i) ==
    [type |-> type, value |-> [bytes |-> <<"a">>, valid |-> TRUE],
     begin_l |-> <<>>, end_l |-> <<>>,
     expression_l |-> <<10 * i, 10 * i + (IF type = "Str" THEN 1 ELSE 4)>>]

ChildLists ==
    UNION {{[i \in 1..k |-> ChildAt(types[i], i)] : types \in [1..k -> {"Str", "Begin"}]} :
              k \in 0..MaxArgs}

ClosingAt == 10 * (MaxArgs + 1)

DQUOTE == "U+0022"

OpeningTokens ==
    {Token("tSTRING_BEG", <<DQUOTE>>, 0, 1), Token("tSTRING_BEG", <<"<", "<", "A">>, 0, 3)}

ClosingTokens ==
    {Token("tSTRING_END", <<DQUOTE>>, ClosingAt, ClosingAt + 1),
     Token("tSTRING_END", <<"A">>, ClosingAt, ClosingAt + 1)}

Some(S) == {<<x>> : x \in S}

Built(op, input, node) ==
    [called |-> TRUE, op |-> op, node |-> input, pre |-> builder,
     ok |-> node.type # "panic", result |-> node]

(* When, InPattern, Condition and RescueBody lay their constituents out   *)
(* as the source has them: the keyword at 0, the condition, the pattern   *)
(* or the exception list in the first slot, a guard or `=> e` in the      *)
(* second, `then` where the closing token of a collection is, the body    *)
(* after it, then `else`, its body and `end`.                             *)
ThenToken == Token("kTHEN", <<"t", "h", "e", "n">>, ClosingAt, ClosingAt + 4)

Bodies == {<<>>, <<ChildAt("Begin", MaxArgs + 2)>>}

ElseAt == 10 * (MaxArgs + 3)

ElseTokens == {<<>>, <<Token("kELSE", <<"e", "l", "s", "e">>, ElseAt, ElseAt + 4)>>}

ElseBodies == {<<>>, <<ChildAt("Begin", MaxArgs + 4)>>}

EndAt == 10 * (MaxArgs + 5)

EndTokens == {<<>>, <<Token("kEND", <<"e", "n", "d">>, EndAt, EndAt + 3)>>}

(* A condition the parser hands over: a local variable, or a regexp,      *)
(* which check_condition wraps.                                           *)
Conditions ==
    {[type |-> t, expression_l |-> <<10, 13>>, other_l |-> <<>>, kids |-> <<>>] :
        t \in {"Lvar", "Regexp"}}

When ==
    /\ pc = "builder"
    /\ ~ret.called
    /\ \E patterns \in ChildLists, body \in Bodies :
          ret' = Built("when", [patterns |-> patterns, body |-> body],
                       when(Token("kWHEN", <<"w", "h", "e", "n">>, 0, 4), patterns,
                            ThenToken, body))
    /\ UNCHANGED <<lexer, tokens, last, pc, builder>>

InPattern ==
    /\ pc = "builder"
    /\ ~ret.called
    /\ \E guard \in {<<>>, <<ChildAt("IfGuard", 2)>>}, body \in Bodies :
          ret' = Built("in_pattern", [guard |-> guard, body |-> body],
                       in_pattern(Token("kIN", <<"i", "n">>, 0, 2), ChildAt("MatchVar", 1),
                                  guard, ThenToken, body))
    /\ UNCHANGED <<lexer, tokens, last, pc, builder>>

Condition ==
    /\ pc = "builder"
    /\ ~ret.called
    /\ \E cond \in Conditions, if_true \in Bodies, else_t \in ElseTokens,
          if_false \in ElseBodies, end_t \in EndTokens :
          /\ if_false # <<>> => else_t # <<>>
          /\ ret' = Built("condition",
                          [cond |-> cond, if_true |-> if_true, else_t |-> else_t,
                           if_false |-> if_false, end_t |-> end_t],
                          condition(Token("kIF", <<"i", "f">>, 0, 2), cond, ThenToken,
                                    if_true, else_t, if_false, end_t))
    /\ UNCHANGED <<lexer, tokens, last, pc, builder>>

RescueBody ==
    /\ pc = "builder"
    /\ ~ret.called
    /\ \E exc_list \in {<<>>, <<ChildAt("Array", 1)>>},
          exc \in {<<>>, <<Token("tASSOC", <<"=", ">">>, 17, 19)>>},
          then_t \in {<<>>, <<ThenToken>>}, body \in Bodies :
          ret' = Built("rescue_body",
                       [exc_list |-> exc_list, assoc_t |-> exc, then_t |-> then_t,
                        body |-> body],
                       rescue_body(Token("kRESCUE", <<"r", "e", "s", "c", "u", "e">>, 0, 6),
                                   exc_list, exc,
                                   IF exc = <<>> THEN <<>> ELSE <<ChildAt("Lvasgn", 2)>>,
                                   then_t, body))
    /\ UNCHANGED <<lexer, tokens, last, pc, builder>>

Array ==
    /\ pc = "builder"
    /\ ~ret.called
    /\ \E begin_t \in {<<>>, <<Token("tLBRACK", <<"[">>, 0, 1)>>}, elements \in ChildLists,
          end_t \in {<<>>, <<Token("tRBRACK", <<"]">>, ClosingAt, ClosingAt + 1)>>} :
          ret' = Built("array", [begin_t |-> begin_t, parts |-> elements, end_t |-> end_t],
                       array(begin_t, elements, end_t))
    /\ UNCHANGED <<lexer, tokens, last, pc, builder>>

StringCompose ==
    /\ pc = "builder"
    /\ ~ret.called
    /\ \E begin_t \in {<<>>} \cup Some(OpeningTokens), parts \in ChildLists,
          end_t \in {<<>>} \cup Some(ClosingTokens) :
          ret' = Built("string_compose",
                       [begin_t |-> begin_t, parts |-> parts, end_t |-> end_t],
                       string_compose(begin_t, parts, end_t))
    /\ UNCHANGED <<lexer, tokens, last, pc, builder>>

XstringCompose ==
    /\ pc = "builder"
    /\ ~ret.called
    /\ \E begin_t \in {Token("tXSTRING_BEG", <<BACKTICK>>, 0, 1),
                       Token("tXSTRING_BEG", <<"<", "<", BACKTICK, "A", BACKTICK>>, 0, 5)},
          parts \in ChildLists, end_t \in ClosingTokens :
          ret' = Built("xstring_compose",
                       [begin_t |-> <<begin_t>>, parts |-> parts, end_t |-> <<end_t>>],
                       xstring_compose(begin_t, parts, end_t))
    /\ UNCHANGED <<lexer, tokens, last, pc, builder>>

NextRanges ==
    \/ When \/ InPattern \/ Condition \/ RescueBody
    \/ Array \/ StringCompose \/ XstringCompose

SpecRanges == InitBuilder /\ [][NextRanges]_vars

Covers(outer, inner) == outer[1] <= inner[1] /\ outer[2] >= inner[2]

RangesOf(option) == IF option = <<>> THEN {} ELSE {option[1]}

IsHeredoc(n) == n.type \in {"Heredoc", "XHeredoc"}

(* The ranges attached to a node besides expression_l. *)
SubRanges(n) ==
    CASE n.type \in {"When", "InPattern"} -> {n.keyword_l, n.begin_l}
      [] n.type = "If" ->
           {n.keyword_l, n.begin_l} \cup RangesOf(n.else_l) \cup RangesOf(n.end_l)
      [] n.type = "RescueBody" ->
           {n.keyword_l} \cup RangesOf(n.begin_l) \cup RangesOf(n.assoc_l)
      [] IsHeredoc(n) -> {n.heredoc_body_l, n.heredoc_end_l}
      [] n.type = "Xstr" -> {n.begin_l, n.end_l}
      [] OTHER -> RangesOf(n.begin_l) \cup RangesOf(n.end_l)

ExprsOf(nodes) == {nodes[i].expression_l : i \in 1..Len(nodes)}

(* The expression_l of the children of a node. *)
ChildRanges(n) ==
    CASE n.type = "When" -> ExprsOf(n.patterns) \cup ExprsOf(n.body)
      [] n.type = "InPattern" ->
           {n.pattern.expression_l} \cup ExprsOf(n.guard) \cup ExprsOf(n.body)
      [] n.type = "If" ->
           {n.cond.expression_l} \cup ExprsOf(n.if_true) \cup ExprsOf(n.if_false)
      [] n.type = "RescueBody" ->
           ExprsOf(n.exc_list) \cup ExprsOf(n.exc_var) \cup ExprsOf(n.body)
      [] n.type = "Array" -> ExprsOf(n.elements)
      [] n.type \in {"Dstr", "Xstr", "Heredoc", "XHeredoc"} -> ExprsOf(n.parts)
      [] OTHER -> {}

IsBuilt ==
    /\ ret.called /\ ret.ok
    /\ ret.op \in {"when", "in_pattern", "condition", "rescue_body", "array",
                   "string_compose", "xstring_compose"}

HasThenOutside(n) == n.type \in {"When", "InPattern"}

C18_InPatternWithoutBody ==
    /\ IsBuilt
    /\ ret.result.type = "InPattern"
    /\ ret.result.guard # <<>> /\ ret.result.body = <<>>
    /\ ret.result.expression_l = <<0, 24>>
    /\ ret.result.begin_l = <<ClosingAt, ClosingAt + 4>>

(* `if /a/ then` with nothing after it: the If ends with the `then`, and  *)
(* its condition is the match of the current line.                        *)
C18_BareCondition ==
    /\ IsBuilt
    /\ ret.result.type = "If"
    /\ ret.result.cond.type = "MatchCurrentLine"
    /\ ret.result.if_true = <<>> /\ ret.result.else_l = <<>> /\ ret.result.end_l = <<>>
    /\ ret.result.expression_l = <<0, ClosingAt + 4>>

(* `rescue E => e` with neither `then` nor body ends with the variable.   *)
C18_BareRescue ==
    /\ IsBuilt
    /\ ret.result.type = "RescueBody"
    /\ ret.result.assoc_l = <<<<17, 19>>>>
    /\ ret.result.begin_l = <<>> /\ ret.result.body = <<>>
    /\ ret.result.expression_l = <<0, 24>>

----------------------------------------------------------------------------
(* StaticEnvironment on its own: scopes opened and closed in pairs, and   *)
(* names declared in them.                                                *)

EnvNames == {"a", "b", FORWARD_ARGS}

(* What the caller of extend_static or extend_dynamic saw when it opened  *)
(* each scope that is still open, innermost last.                         *)
Opened == IF ret.called THEN ret.node ELSE <<>>

Seen(b) == [variables |-> b.variables, stack |-> b.stack]

EnvCall(op, opened, result) ==
    [called |-> TRUE, op |-> op, node |-> opened, pre |-> builder, ok |-> TRUE,
     result |-> result]

ExtendStatic ==
    /\ pc = "builder"
    /\ Len(builder.stack) < MaxBlockDepth
    /\ builder' = extend_static(builder)
    /\ ret' = EnvCall("extend_static", Append(Opened, Seen(builder)), Seen(builder))
    /\ UNCHANGED <<lexer, tokens, last, pc>>

ExtendDynamic ==
    /\ pc = "builder"
    /\ Len(builder.stack) < MaxBlockDepth
    /\ builder' = extend_dynamic(builder)
    /\ ret' = EnvCall("extend_dynamic", Append(Opened, Seen(builder)), Seen(builder))
    /\ UNCHANGED <<lexer, tokens, last, pc>>

(* declare(name), and declare_forward_args for the name FORWARD_ARGS. *)
DeclareInScope ==
    /\ pc = "builder"
    /\ \E name \in EnvNames :
          /\ builder' = declare(builder, name)
          /\ ret' = EnvCall("declare", Opened, [variables |-> {name}, stack |-> <<>>])
    /\ UNCHANGED <<lexer, tokens, last, pc>>

Unextend ==
    /\ pc = "builder"
    /\ builder.stack # <<>>
    /\ builder' = unextend(builder)
    /\ ret' = EnvCall("unextend", SubSeq(Opened, 1, Len(Opened) - 1), Opened[Len(Opened)])
    /\ UNCHANGED <<lexer, tokens, last, pc>>

(* reset(): no name is declared and no scope is open any more. *)
Reset ==
    /\ pc = "builder"
    /\ builder' = reset(builder)
    /\ ret' = EnvCall("reset", <<>>, Seen(builder))
    /\ UNCHANGED <<lexer, tokens, last, pc>>

NextEnv == ExtendStatic \/ ExtendDynamic \/ DeclareInScope \/ Unextend \/ Reset

SpecEnv == InitBuilder /\ [][NextEnv]_vars

(* C19: unextend gives back the variables and the stack that the matching *)
(* extend_static or extend_dynamic found, whatever was declared and       *)
(* whichever scopes were opened and closed in between.                    *)
C19_ScopesRestored ==
    ret.called /\ ret.op = "unextend" =>
        /\ builder.variables = ret.result.variables
        /\ builder.stack = ret.result.stack

(* A static scope inside a dynamic one, each with a declaration of its    *)
(* own, closed again: the outer scope is as it was.                       *)
C19_Witness ==
    /\ ret.called /\ ret.op = "unextend"
    /\ ret.pre.variables = {"b"}
    /\ Len(ret.pre.stack) = 2
    /\ ret.pre.stack[2] = {"a"}
    /\ builder.variables = {"a"}
    /\ Len(builder.stack) = 1

(* C20: after extend_static no name is declared, forward args included;   *)
(* after extend_dynamic every name is declared exactly if it was before;  *)
(* declare(name) declares that name and changes no other.                 *)
C20_Declared ==
    /\ ret.called /\ ret.op = "extend_static" =>
          \A name \in EnvNames : ~is_declared(builder, name)
    /\ ret.called /\ ret.op = "extend_dynamic" =>
          \A name \in EnvNames : is_declared(builder, name) = is_declared(ret.pre, name)
    /\ ret.called /\ ret.op = "declare" =>
          \A name \in EnvNames :
              is_declared(builder, name) =
                  (name \in ret.result.variables \/ is_declared(ret.pre, name))

(* extend_static where forward args and `a` were declared: neither is     *)
(* declared in the new scope.                                             *)
C20_Witness ==
    /\ ret.called /\ ret.op = "extend_static"
    /\ ret.pre.variables = {"a", FORWARD_ARGS}
    /\ builder.variables = {}
    /\ builder.stack[Len(builder.stack)] = {"a", FORWARD_ARGS}

----------------------------------------------------------------------------
(* The decoder: the encoding named by the magic comment, and the decoding *)
(* of the input in that encoding or in the declared one.                  *)

(* The sources given to the decoder: an optional `#!` line, then a line   *)
(* made of a lead, a marker, a separator, an encoding name and a trailer. *)
BOM_TEXT == <<"\\", "x", "e", "f", "\\", "x", "b", "b", "\\", "x", "b", "f">>

Shebangs == {<<>>,
     <<"#", "!", "r", NL>>}
Leads ==
    {<<"#">>,
     <<"#", SP>>,
     <<"#", SP, "-", "*", "-", SP>>,
     <<>>,
     <<"x", SP>>,
     <<"#", SP, "f", "i", "l", "e">>,
     <<"\\", "x", "e", "f", "\\", "x", "b", "b", "\\", "x", "b", "f">>}
Markers == {<<"c", "o", "d", "i", "n", "g">>,
     <<"e", "n", "c", "o", "d", "i", "n", "g">>,
     <<"C", "o", "d", "i", "n", "g">>,
     <<"c", "o", "d", "i", "n">>}
Separators == {<<":">>,
     <<"=">>,
     <<":", SP>>,
     <<SP, "=", SP>>,
     <<":", "0xC2", "0xA0">>,
     <<SP>>}
EncodingNames ==
    {<<"u", "t", "f", "-", "8">>,
     <<"u", "t", "f", "8", "-", "m", "a", "c">>,
     <<"u", "t", "f", "-", "8", "-", "u", "n", "i", "x">>,
     <<"k", "o", "i", "8", "-", "r", "-", "d", "o", "s">>,
     <<"s", "j", "i", "s", "-", "m", "a", "c">>,
     <<"a", "-", "d", "o", "s", "-", "b">>,
     <<"u", "t", "f", "8", "-", "m", "a", "c", "i", "n", "t", "o", "s", "h">>,
     <<"B", "I", "N", "A", "R", "Y">>}
Trailers == {<<>>,
     <<SP, "-", "*", "-">>}

MagicLines ==
    [shebang : Shebangs, lead : Leads, marker : Markers, separator : Separators,
     name : EncodingNames, trailer : Trailers]

SourceOf(m) == m.shebang \o m.lead \o m.marker \o m.separator \o m.name \o m.trailer \o <<NL>>

RecognizeEncoding ==
    /\ pc = "builder"
    /\ ~ret.called
    /\ \E m \in MagicLines :
          ret' = [called |-> TRUE, op |-> "recognize_encoding", node |-> m,
                  pre |-> builder, ok |-> recognize_encoding(SourceOf(m)) # <<>>,
                  result |-> recognize_encoding(SourceOf(m))]
    /\ UNCHANGED <<lexer, tokens, last, pc, builder>>

IsRecognizeCall == ret.called /\ ret.op = "recognize_encoding"

IsCommentLine(m) == m.lead # <<>> /\ m.lead[1] = "#"

HasMarker(m) ==
    /\ m.marker \in {<<"c", "o", "d", "i", "n", "g">>, <<"e", "n", "c", "o", "d", "i", "n", "g">>}
    /\ \E i \in 1..Len(m.separator) : m.separator[i] \in {":", "="}

EndsWith(name, suffix) ==
    /\ Len(name) > Len(suffix)
    /\ SubSeq(name, Len(name) - Len(suffix) + 1, Len(name)) = suffix

WithoutSuffix(name) ==
    IF name = <<"u", "t", "f", "8", "-", "m", "a", "c">> THEN name
    ELSE IF \E s \in Suffixes : EndsWith(name, s)
         THEN LET s == CHOOSE x \in Suffixes : EndsWith(name, x)
              IN SubSeq(name, 1, Len(name) - Len(s))
         ELSE name

(* C21: the magic comment is a comment line holding `coding` or           *)
(* `encoding` followed by `:` or `=`; the name recognized is the run of   *)
(* name bytes after it, less a trailing -unix, -dos or -mac (utf8-mac is  *)
(* kept whole); a line that is no comment, or has no marker, gives no     *)
(* encoding.                                                              *)
C21_MagicComment ==
    IsRecognizeCall =>
        IF IsCommentLine(ret.node) /\ HasMarker(ret.node)
        THEN ret.result = <<WithoutSuffix(ret.node.name)>>
        ELSE ret.result = <<>>

(* A first line that is no comment and starts with the twelve characters  *)
(* of the escaped byte-order mark is recognized as utf-8.                 *)
C21_Witness ==
    /\ IsRecognizeCall
    /\ ret.node.shebang = <<>>
    /\ ret.node.lead = BOM_TEXT
    /\ ~IsCommentLine(ret.node)
    /\ ret.result = <<UTF_8>>

(* `binary` spelled with the dotless i, U+0131: no ASCII letter, and its   *)
(* upper case is the ASCII I.                                             *)
DotlessBinary == <<"b", CodePoint(305), "n", "a", "r", "y">>

ExplicitEncodings ==
    {<<>>, <<<<"u", "t", "f", "-", "8">>>>, <<<<"U", "T", "F", "-", "8">>>>, <<<<"K", "o", "i", "8", "-", "R">>>>, <<<<"b", "i", "n", "a", "r", "y">>>>, <<<<"a", "s", "c", "i", "i", "-", "8", "b", "i", "t">>>>, <<<<"u", "s", "-", "a", "s", "c", "i", "i">>>>, <<<<"S", "h", "i", "f", "t", "_", "J", "I", "S">>>>, <<DotlessBinary>>}

Payloads == {<<>>, <<"a">>, <<BYTE_FF>>, <<"a", BYTE_FF>>}

DecodedLines ==
    {m \in MagicLines : /\ m.trailer = <<>>
                        /\ m.lead \in {<<"#", SP>>, <<>>}
                        /\ m.separator \in {<<":", SP>>, <<SP>>}}

DecodeInput ==
    /\ pc = "builder"
    /\ ~ret.called
    /\ \E m \in DecodedLines, payload \in Payloads, enc \in ExplicitEncodings :
          ret' = [called |-> TRUE, op |-> "decode_input",
                  node |-> [source |-> SourceOf(m) \o payload, enc |-> enc],
                  pre |-> builder, ok |-> decode_input(SourceOf(m) \o payload, enc).ok,
                  result |-> decode_input(SourceOf(m) \o payload, enc)]
    /\ UNCHANGED <<lexer, tokens, last, pc, builder>>

NextDecoder == RecognizeEncoding \/ DecodeInput

SpecDecoder == InitBuilder /\ [][NextDecoder]_vars

IsDecodeCall == ret.called /\ ret.op = "decode_input"

(* The name decode_input works with: the explicit one, else the one of    *)
(* the magic comment, else utf-8.                                         *)
EffectiveEncoding ==
    IF ret.node.enc # <<>> THEN ret.node.enc[1]
    ELSE IF recognize_encoding(ret.node.source) # <<>> THEN recognize_encoding(ret.node.source)[1]
    ELSE UTF_8

SameLetter(c, d) ==
    \/ c = d
    \/ \E k \in 1..26 : {c, d} = {LowerCase[k], UpperCase[k]}

EqualIgnoringCase(s, t) ==
    /\ Len(s) = Len(t)
    /\ \A i \in 1..Len(s) : SameLetter(s[i], t[i])

SupportedEncodings == {<<"A", "S", "C", "I", "I", "-", "8", "B", "I", "T">>, <<"B", "I", "N", "A", "R", "Y">>, <<"U", "T", "F", "-", "8">>, <<"K", "O", "I", "8", "-", "R">>}

IsSupported(name) == \E s \in SupportedEncodings : EqualIgnoringCase(name, s)

(* C22: decode_input succeeds exactly when the effective encoding name    *)
(* is, letter case aside, ASCII-8BIT, BINARY, UTF-8 or KOI8-R, and then   *)
(* returns that name; otherwise it fails with the unsupported-encoding    *)
(* error that carries the name, and with no decoded text. An explicit     *)
(* encoding goes before the magic comment.                                *)
C22_DecodeInput ==
    IsDecodeCall =>
        /\ ret.result.ok <=> IsSupported(EffectiveEncoding)
        /\ ret.result.ok => ret.result.value[2] = EffectiveEncoding
        /\ ~ret.result.ok =>
              /\ ret.result.error = [type |-> "UnsupportdEncoding", name |-> EffectiveEncoding]
              /\ "value" \notin DOMAIN ret.result

(* An explicit koi8-r wins over a magic comment that names an encoding    *)
(* decode does not know.                                                  *)
C22_Witness ==
    /\ IsDecodeCall
    /\ ret.node.enc = <<<<"K", "o", "i", "8", "-", "R">>>>
    /\ recognize_encoding(ret.node.source) = <<<<"s", "j", "i", "s">>>>
    /\ ret.result.ok
    /\ ret.result.value[2] = <<"K", "o", "i", "8", "-", "R">>

(* The explicit name spelled with the dotless i is none of the four names *)
(* in any letter case, and the input is decoded under it as BINARY.       *)
C22_DotlessAccepted ==
    /\ IsDecodeCall
    /\ ret.node.enc = <<DotlessBinary>>
    /\ ~IsSupported(DotlessBinary)
    /\ to_uppercase(DotlessBinary) = <<"B", "I", "N", "A", "R", "Y">>
    /\ ret.result.ok
    /\ ret.result.value = <<from_utf8_lossy(ret.node.source), DotlessBinary>>

(* The parser enters a class body inside the default value of an optional *)
(* argument: a new static scope, with the current argument left on top.   *)
EnterClassBody ==
    /\ pc = "builder"
    /\ ~ret.called
    /\ builder.current_arg_stack # <<>>
    /\ builder.stack = <<>>
    /\ builder' = extend_static(builder)
    /\ UNCHANGED <<lexer, tokens, last, pc, ret>>

NextAccessible == Declare \/ EnterDefault \/ EnterClassBody \/ Accessible

SpecAccessible == InitBuilder /\ [][NextAccessible]_vars

IsAccessibleCall == ret.called /\ ret.op = "accessible"

WasDeclared == ret.node.name \in ret.pre.variables

WasCurrentArg ==
    /\ ret.pre.current_arg_stack # <<>>
    /\ ret.pre.current_arg_stack[Len(ret.pre.current_arg_stack)] = <<ret.node.name>>

CircularArgumentReference ==
    <<Diag("Error", <<"CircularArgumentReference", ret.node.name>>,
           ret.node.expression_l[1], ret.node.expression_l[2])>>

AccessibleNode ==
    IF ret.node.type # "Lvar" THEN ret.result = ret.node
    ELSE IF WasDeclared THEN ret.result = ret.node
    ELSE ret.result = [type |-> "Send", method_name |-> ret.node.name,
                       selector_l |-> <<ret.node.expression_l>>,
                       expression_l |-> ret.node.expression_l]

(* C23: accessible keeps a declared Lvar and turns an undeclared one into *)
(* a Send without receiver and arguments, named after it and placed at    *)
(* its range; it records CircularArgumentReference at the node's range    *)
(* whenever the name is the top of current_arg_stack; any other node      *)
(* comes back unchanged and without a diagnostic.                         *)
C23_Accessible ==
    IsAccessibleCall =>
        /\ AccessibleNode
        /\ Recorded = IF ret.node.type = "Lvar" /\ WasCurrentArg
                      THEN CircularArgumentReference ELSE <<>>

(* C23 as the code has it: CircularArgumentReference is recorded when the *)
(* name is the top of current_arg_stack and is declared as well.          *)
C23_AccessibleDeclared ==
    IsAccessibleCall =>
        /\ AccessibleNode
        /\ Recorded = IF ret.node.type = "Lvar" /\ WasCurrentArg /\ WasDeclared
                      THEN CircularArgumentReference ELSE <<>>

(* In a class body inside its own default value the argument is not       *)
(* declared: the name becomes a Send and nothing is recorded.             *)
C23_Witness ==
    /\ IsAccessibleCall
    /\ ret.node.type = "Lvar"
    /\ WasCurrentArg
    /\ ~WasDeclared
    /\ ret.result.type = "Send"
    /\ Recorded = <<>>

(* The default value of an argument names the argument itself.            *)
C23_Circular ==
    /\ IsAccessibleCall
    /\ WasCurrentArg
    /\ WasDeclared
    /\ Recorded = CircularArgumentReference

(* The parser enters a method body: a new static scope and a new frame of *)
(* numbered parameters, in a context where a constant cannot be assigned. *)
EnterDef ==
    /\ pc = "builder"
    /\ Len(builder.context) < MaxBlockDepth
    /\ builder' = [extend_static(builder) EXCEPT
                      !.context = Append(@, "def"),
                      !.max_numparam_stack = Append(@, 0)]
    /\ ret' = NoRet
    /\ UNCHANGED <<lexer, tokens, last, pc>>

(* assignable on the first name the parser sees in the scopes it is in. *)
FirstAssignable == builder.variables = {} /\ builder.diagnostics = <<>> /\ Assignable

NextAssignable == EnterDef \/ EnterBlock \/ RegisterNumparam \/ FirstAssignable

SpecAssignable == InitBuilder /\ [][NextAssignable]_vars

IsAssignableCall == ret.called /\ ret.op = "assignable"

SameStaticEnv == builder.variables = ret.pre.variables /\ builder.stack = ret.pre.stack

(* C24: assignable declares a name only when its Lvar branch succeeds;    *)
(* when it returns Err, and when it returns Ok for an Ivar, Gvar, Cvar or *)
(* Const, static_env is as it was before the call.                        *)
C24_DeclaresOnSuccess ==
    IsAssignableCall =>
        /\ ~ret.ok => SameStaticEnv
        /\ ret.ok /\ ret.node.type \in {"Ivar", "Gvar", "Cvar", "Const"} => SameStaticEnv
        /\ ret.ok /\ ret.node.type = "Lvar" =>
              /\ builder.variables = ret.pre.variables \cup {ret.node.name}
              /\ builder.stack = ret.pre.stack

(* An Lvar rejected as a numbered parameter is not declared.              *)
C24_Witness ==
    /\ IsAssignableCall
    /\ ret.node.type = "Lvar"
    /\ ~ret.ok
    /\ Recorded = <<Diag("Error", <<"CantAssignToNumparam", ret.node.name>>, 0, 2)>>
    /\ ret.node.name \notin builder.variables

(* A constant in a method body is rejected.                               *)
C24_DynamicConstant ==
    /\ IsAssignableCall
    /\ ret.node.type = "Const"
    /\ ~ret.ok
    /\ Recorded = <<Diag("Error", <<"DynamicConstantAssignment">>, 0, 1)>>

IsKeyCall == ret.called /\ ret.op = "check_duplicate_pattern_key"

IsVariableCall ==
    ret.called /\ ret.op = "match_var" /\ Chars(ret.node.value)[1] \in Lower \cup {"_"}

IsPrivateName == Chars(ret.node.value)[1] = "_"

Duplicate(message) ==
    /\ ~ret.ok
    /\ Recorded = <<Diag("Error", <<message>>, ret.node.begin, ret.node.end)>>
    /\ builder.pattern_hash_keys = ret.pre.pattern_hash_keys
    /\ builder.pattern_variables = ret.pre.pattern_variables

Registered == ret.ok /\ Recorded = <<>>

VariableChecked ==
    IsVariableCall =>
        IF IsPrivateName THEN Registered
        ELSE IF ret.node.value \in ret.pre.pattern_variables
        THEN Duplicate("DuplicateVariableName")
        ELSE Registered /\ ret.node.value \in builder.pattern_variables

(* C25: check_duplicate_pattern_key, like check_duplicate_pattern_variable, *)
(* skips names that start with an underscore: such a name is accepted     *)
(* every time and without a diagnostic; any other name is rejected the    *)
(* second time with DuplicateKeyName (DuplicateVariableName for a         *)
(* variable), and the registered names stay as they were.                 *)
C25_SkipsUnderscore ==
    /\ VariableChecked
    /\ IsKeyCall =>
          IF IsPrivateName THEN Registered
          ELSE IF ret.node.value \in ret.pre.pattern_hash_keys
          THEN Duplicate("DuplicateKeyName")
          ELSE Registered /\ ret.node.value \in builder.pattern_hash_keys

(* C25 as the code has it: only check_duplicate_pattern_variable skips    *)
(* names that start with an underscore; a key is rejected the second time *)
(* whatever its first character.                                          *)
C25_KeysNotSkipped ==
    /\ VariableChecked
    /\ IsKeyCall =>
          IF ret.node.value \in ret.pre.pattern_hash_keys
          THEN Duplicate("DuplicateKeyName")
          ELSE Registered /\ ret.node.value \in builder.pattern_hash_keys

(* The key _a a second time in one pattern.                               *)
C25_Witness ==
    /\ IsKeyCall
    /\ IsPrivateName
    /\ ret.node.value \in ret.pre.pattern_hash_keys
    /\ ~ret.ok
    /\ Recorded = <<Diag("Error", <<"DuplicateKeyName">>, 0, 2)>>

(* The variable _a a second time in one pattern.                          *)
C25_PrivateVariableTwice ==
    /\ IsVariableCall
    /\ IsPrivateName
    /\ ret.node.value \in ret.pre.variables
    /\ Registered

----------------------------------------------------------------------------
(* Brackets: the lexer on inputs made of brackets, with a grammar that    *)
(* may have pushed true onto cond and cmdarg before the first token (the  *)
(* condition of a `while`, the arguments of a command).                   *)

MaxBracketLen == 3

BracketAlphabet == {"(", ")", "[", "]", "{", "}", "a", SP, "."}

BracketScenarios ==
    { <<"a", ".", "[", "]", "=">>,
      <<"(", "a", ".", "[", "]", ")">>,
      <<"a", ".", "[", "a", "]">>,
      <<"-", ">", "{", "}">>,
      <<"(", "[", "{", "}", "]", ")">>,
      <<"a", "[", "(", "a", ")", "]">>,
      <<"a", SP, "(", "a", ")">>,
      <<"a", SP, "{", "}", ")">> }

BracketInputs(n) == UNION {[1..k -> BracketAlphabet] : k \in 0..n} \cup BracketScenarios

ParenKinds == {"tLPAREN", "tLPAREN2", "tLPAREN_ARG"}
BrackKinds == {"tLBRACK", "tLBRACK2"}
OpeningKinds == ParenKinds \cup BrackKinds \cup LBraceKinds
ClosingKinds == {"tRPAREN", "tRBRACK", "tRCURLY"}

Closes(closing, opening) ==
    \/ closing = "tRPAREN" /\ opening \in ParenKinds
    \/ closing = "tRBRACK" /\ opening \in BrackKinds
    \/ closing = "tRCURLY" /\ opening \in LBraceKinds

(* The brackets seen so far: those still open, innermost last, each with  *)
(* the counters and stacks the lexer had before it; whether every closing *)
(* token so far closed the innermost open bracket; and, after a closing   *)
(* token, the bracket it closed. The inputs open no interpolation, so a   *)
(* tSTRING_DEND closes nothing.                                           *)
NoBrackets == [open |-> <<>>, matched |-> TRUE, closed |-> <<>>]

Nesting(kind, s) ==
    [kind |-> kind, paren_nest |-> s.paren_nest, brace_nest |-> s.brace_nest,
     cond |-> s.cond, cmdarg |-> s.cmdarg]

BracketsAfter(seen, token, pre) ==
    IF token.kind \in OpeningKinds
    THEN [seen EXCEPT !.open = Append(@, Nesting(token.kind, pre)), !.closed = <<>>]
    ELSE IF token.kind \in ClosingKinds
    THEN IF seen.open # <<>> /\ Closes(token.kind, seen.open[Len(seen.open)].kind)
         THEN [seen EXCEPT !.open = SubSeq(@, 1, Len(@) - 1),
                           !.closed = <<seen.open[Len(seen.open)]>>]
         ELSE [seen EXCEPT !.matched = FALSE, !.closed = <<>>]
    ELSE IF token.kind = "tSTRING_DEND"
    THEN [seen EXCEPT !.matched = FALSE, !.closed = <<>>]
    ELSE [seen EXCEPT !.closed = <<>>]

InitBrackets ==
    /\ \E input \in BracketInputs(MaxBracketLen), driven \in BOOLEAN :
          /\ lexer = NewLexer(input)
          /\ last = [called |-> FALSE, pre |-> NewLexer(input), token |-> NoToken,
                     stalled |-> FALSE, after_eoi |-> FALSE, open_before |-> <<>>,
                     open |-> <<>>, extra |-> 0, driven |-> driven]
    /\ tokens = <<>>
    /\ pc = "lexing"
    /\ builder = NewBuilder
    /\ ret = NoBrackets

(* The grammar pushes true onto cond and cmdarg. *)
ParserPush ==
    /\ pc = "lexing"
    /\ ~last.called
    /\ lexer.cond = 0
    /\ lexer' = [lexer EXCEPT !.cond = StackPush(@, TRUE), !.cmdarg = StackPush(@, TRUE)]
    /\ UNCHANGED <<tokens, last, pc, builder, ret>>

(* One turn of the loop of tokenize_until_eof, with the brackets noted. *)
NextBracketToken ==
    /\ pc = "lexing"
    /\ LET Returned(r) ==
               /\ lexer' = r.st
               /\ last' = Called(last, r, FALSE)
               /\ tokens' = IF r.token.kind \in {"END_OF_INPUT", "HANG", "PANIC"} THEN tokens
                            ELSE Append(tokens, r.token)
               /\ pc' = CASE r.token.kind = "HANG" -> "hung"
                          [] r.token.kind = "PANIC" -> "panicked"
                          [] r.token.kind = "END_OF_INPUT" -> "done"
                          [] r.token.kind = "tLAMBDA" /\ last.driven -> "lambda"
                          [] OTHER -> "lexing"
               /\ ret' = BracketsAfter(ret, r.token, lexer)
       IN  Returned(yylex(lexer))
    /\ UNCHANGED builder

NextBrackets == ParserPush \/ NextBracketToken \/ LambdaRule

SpecBrackets == InitBrackets /\ [][NextBrackets]_vars

Opens == IsCall /\ last.token.kind \in OpeningKinds
Shuts == IsCall /\ last.token.kind \in ClosingKinds

(* C27: every opening bracket token pushes false onto cond and cmdarg and *)
(* adds one to paren_nest, a brace to brace_nest as well; every closing   *)
(* bracket token pops cond and cmdarg once and takes one from paren_nest, *)
(* tRCURLY from brace_nest as well.                                       *)
C27_BracketsPushAndPop ==
    /\ Opens =>
          /\ lexer.cond = StackPush(last.pre.cond, FALSE)
          /\ lexer.cmdarg = StackPush(last.pre.cmdarg, FALSE)
          /\ lexer.paren_nest = last.pre.paren_nest + 1
          /\ last.token.kind \in LBraceKinds => lexer.brace_nest = last.pre.brace_nest + 1
    /\ Shuts =>
          /\ lexer.cond = StackPop(last.pre.cond)
          /\ lexer.cmdarg = StackPop(last.pre.cmdarg)
          /\ lexer.paren_nest = last.pre.paren_nest - 1
          /\ last.token.kind = "tRCURLY" => lexer.brace_nest = last.pre.brace_nest - 1

(* `[` after `.`, with true on top of cond: tLBRACK2 is returned and cond *)
(* is as before.                                                          *)
C27_Witness ==
    /\ Opens
    /\ last.token.kind = "tLBRACK2"
    /\ is_after_operator(last.pre.lex_state)
    /\ last.pre.cond = 1
    /\ lexer.cond = 1
    /\ lexer.paren_nest = last.pre.paren_nest + 1

(* Everywhere else the brackets do push and pop. *)
C27_ButAfterOperator ==
    (IsCall /\ ~(last.token.kind = "tLBRACK2" /\ is_after_operator(last.pre.lex_state)))
        => C27_BracketsPushAndPop

Closed == ret.closed[1]

IsMethodNameBrackets == IsCall /\ last.token.kind \in {"tAREF", "tASET"}

(* C28: while the bracket tokens are properly matched, after a closing    *)
(* token paren_nest, brace_nest, cond and cmdarg are what they were       *)
(* before the opening token it closes, and paren_nest is never negative;  *)
(* tAREF and tASET leave paren_nest, cond and cmdarg as they were.        *)
C28_Balanced ==
    /\ ret.matched /\ ret.closed # <<>> =>
          /\ lexer.paren_nest = Closed.paren_nest
          /\ lexer.brace_nest = Closed.brace_nest
          /\ lexer.cond = Closed.cond
          /\ lexer.cmdarg = Closed.cmdarg
    /\ ret.matched => lexer.paren_nest >= 0
    /\ IsMethodNameBrackets =>
          /\ lexer.paren_nest = last.pre.paren_nest
          /\ lexer.cond = last.pre.cond
          /\ lexer.cmdarg = last.pre.cmdarg

(* `[]` after `.` is returned as tAREF and has added one to paren_nest.   *)
C28_Witness ==
    /\ IsMethodNameBrackets
    /\ last.token.kind = "tAREF"
    /\ lexer.paren_nest = last.pre.paren_nest + 1
    /\ lexer.cond = last.pre.cond

(* With no `[` in method-name position the brackets are balanced. *)
C28_ButAfterOperator ==
    (\A i \in 1..Len(tokens) :
        /\ tokens[i].kind \notin {"tAREF", "tASET"}
        /\ tokens[i].kind = "tLBRACK2" => i > 1 /\ tokens[i - 1].kind \notin {"tDOT"})
        => C28_Balanced

(* A pair of parentheses around brackets and braces has been closed.      *)
C28_Nested ==
    /\ ret.matched /\ ret.closed # <<>>
    /\ Closed.kind = "tLPAREN"
    /\ Len(tokens) = 6

----------------------------------------------------------------------------
(* Newlines: the lexer on lines of labels, comments and blanks, with a    *)
(* grammar that may set in_kwarg (the keyword arguments of a pattern).    *)

NewlineAlphabet == {"a", ":", NL, "#", SP, "."}

NewlineScenarios ==
    { <<"a", ":", NL, NL, "a">>,
      <<"a", ":", SP, "#", NL, "a">>,
      <<"a", NL, "#", NL, NL, "a", NL>>,
      <<NL, "#", "a", NL, SP, NL, "a">> }

NewlineInputs(n) == UNION {[1..k -> NewlineAlphabet] : k \in 0..n} \cup NewlineScenarios

InitNewlines ==
    /\ \E input \in NewlineInputs(MaxLen) :
          /\ lexer = NewLexer(input)
          /\ last = [called |-> FALSE, pre |-> NewLexer(input), token |-> NoToken,
                     stalled |-> FALSE, after_eoi |-> FALSE, open_before |-> <<>>,
                     open |-> <<>>, extra |-> 0, driven |-> FALSE]
    /\ tokens = <<>>
    /\ pc = "lexing"
    /\ builder = NewBuilder
    /\ ret = NoRet

(* The grammar sets in_kwarg. *)
EnterKwarg ==
    /\ pc = "lexing"
    /\ ~lexer.in_kwarg
    /\ lexer' = [lexer EXCEPT !.in_kwarg = TRUE]
    /\ UNCHANGED <<tokens, last, pc, builder, ret>>

NextKwarg == EnterKwarg \/ NextToken

(* Comment lines: after a label, a comment that holds the byte 0xFF and *)
(* one that holds the two bytes of U+00E9; at the top of the file, a     *)
(* comment that names an encoding the decoder does not support, and one  *)
(* that names utf-8.                                                     *)
CommentScenarios ==
    { <<"a", ":", SP, "#", BYTE_FF, NL, "a">>,
      <<"a", ":", SP, "#", "0xC3", "0xA9", NL, "a">>,
      <<"#", "c", "o", "d", "i", "n", "g", ":", "x", NL, "a">>,
      <<"#", "c", "o", "d", "i", "n", "g", ":", "u", "t", "f", "-", "8", NL, "a">> }

InitKwarg ==
    /\ \E input \in NewlineInputs(MaxLen) \cup CommentScenarios :
          /\ lexer = NewLexer(input)
          /\ last = [called |-> FALSE, pre |-> NewLexer(input), token |-> NoToken,
                     stalled |-> FALSE, after_eoi |-> FALSE, open_before |-> <<>>,
                     open |-> <<>>, extra |-> 0, driven |-> FALSE]
    /\ tokens = <<>>
    /\ pc = "lexing"
    /\ builder = NewBuilder
    /\ ret = NoRet

SpecKwarg == InitKwarg /\ [][NextKwarg]_vars

(* The first byte a call reads that is not a blank. *)
RECURSIVE FirstByte(_)
FirstByte(s) ==
    LET Read(n) == IF n.c \in {SP, TAB, LF_CHAR, VTAB_CHAR} THEN FirstByte(n.st) ELSE n.c
    IN  Read(nextc(s))

SkipsNewline(st) ==
    /\ st \cap (EXPR_BEG \cup EXPR_CLASS \cup EXPR_FNAME \cup EXPR_DOT) # {}
    /\ st \cap EXPR_LABELED = {}

AfterLabel(st) == (EXPR_ARG \cup EXPR_LABELED) \subseteq st

AtNewline == IsDispatched /\ FirstByte(last.pre) \in {NL, "#"}

(* The last call, returned or panicked, read a newline or a `#` as the    *)
(* first byte that is not a blank.                                        *)
MeetsNewline ==
    /\ last.called /\ last.token.kind # "HANG"
    /\ last.pre.strterm = NoStrTerm
    /\ FirstByte(last.pre) \in {NL, "#"}

(* The offset of that byte, and the comment it starts: the bytes from it  *)
(* to the end of the line.                                                *)
RECURSIVE FirstByteAt(_)
FirstByteAt(s) ==
    LET Read(n) == IF n.c \in {SP, TAB, LF_CHAR, VTAB_CHAR} THEN FirstByteAt(n.st)
                   ELSE n.st.pcur - 1
    IN  Read(nextc(s))

CommentRead ==
    SubSeq(last.pre.input, FirstByteAt(last.pre) + 1,
           LineEnd(last.pre.input, FirstByteAt(last.pre)))

MeetsComment == MeetsNewline /\ FirstByte(last.pre) = "#"

(* The comment is at the top of the file and names an encoding that is    *)
(* none of the supported ones.                                            *)
MagicCommentFails ==
    /\ MeetsComment
    /\ ~last.pre.token_seen
    /\ ENCODING_RE(from_utf8_lossy(CommentRead)) # <<>>
    /\ to_uppercase(ENCODING_RE(from_utf8_lossy(CommentRead))[1])
           \notin {<<"A", "S", "C", "I", "I", "-", "8", "B", "I", "T">>,
                   <<"B", "I", "N", "A", "R", "Y">>, <<"U", "T", "F", "-", "8">>,
                   <<"K", "O", "I", "8", "-", "R">>}

IsNewlineToken ==
    /\ last.token.kind = "tNL"
    /\ lexer.command_start
    /\ lexer.lex_state = EXPR_BEG

(* C29: in in_kwarg mode every newline that would otherwise be skipped,   *)
(* in a lex_state of EXPR_BEG, CLASS, FNAME or DOT without EXPR_LABELED   *)
(* or in one holding both EXPR_ARG and EXPR_LABELED, is returned as tNL,  *)
(* with command_start set and lex_state EXPR_BEG.                         *)
C29_KwargNewline ==
    MeetsNewline /\ last.pre.in_kwarg
        /\ (SkipsNewline(last.pre.lex_state) \/ AfterLabel(last.pre.lex_state))
        => IsNewlineToken

(* C29 as the code has it: in in_kwarg mode the newline after a label     *)
(* (EXPR_ARG and EXPR_LABELED) is returned as tNL, with command_start set *)
(* and lex_state EXPR_BEG, unless it ends a comment whose bytes are not   *)
(* UTF-8, where the call panics; the newline in EXPR_BEG, CLASS, FNAME or *)
(* DOT without EXPR_LABELED is skipped as it is without in_kwarg, and so  *)
(* is the newline after a label without in_kwarg; a comment whose         *)
(* magic-comment scan fails ends the call with END_OF_INPUT.              *)
C29_KwargNewlineAfterLabel ==
    /\ MeetsNewline /\ last.pre.in_kwarg /\ AfterLabel(last.pre.lex_state)
       /\ ~MagicCommentFails =>
          IF MeetsComment /\ ~is_utf8(CommentRead) THEN last.token.kind = "PANIC"
          ELSE IsNewlineToken
    /\ MeetsNewline /\ SkipsNewline(last.pre.lex_state) => last.token.kind # "tNL"
    /\ MeetsNewline /\ ~last.pre.in_kwarg /\ AfterLabel(last.pre.lex_state)
          => last.token.kind # "tNL"
    /\ MagicCommentFails => last.token.kind = "END_OF_INPUT" /\ lexer.comments = <<>>

(* A newline at the start of a line in in_kwarg mode is skipped.          *)
C29_Witness ==
    /\ MeetsNewline
    /\ last.pre.in_kwarg
    /\ FirstByte(last.pre) = NL
    /\ SkipsNewline(last.pre.lex_state)
    /\ last.token.kind = "tIDENTIFIER"

(* The newline after a label in in_kwarg mode. *)
C29_AfterLabel ==
    /\ MeetsNewline
    /\ last.pre.in_kwarg
    /\ AfterLabel(last.pre.lex_state)
    /\ IsNewlineToken

(* The same newline at the end of a comment: of one that is UTF-8, and of *)
(* one that is not.                                                       *)
C29_AfterLabelComment ==
    /\ MeetsComment
    /\ last.pre.in_kwarg
    /\ AfterLabel(last.pre.lex_state)
    /\ CommentRead = <<"#", "0xC3", "0xA9", NL>>
    /\ IsNewlineToken

C29_PanicOnComment ==
    /\ MeetsComment
    /\ last.pre.in_kwarg
    /\ AfterLabel(last.pre.lex_state)
    /\ CommentRead = <<"#", BYTE_FF, NL>>
    /\ last.token.kind = "PANIC"
    /\ pc = "panicked"

(* A comment at the top of the file that names the encoding `x`.          *)
C29_MagicCommentFails ==
    /\ MagicCommentFails
    /\ last.pre.in_kwarg
    /\ last.token.kind = "END_OF_INPUT"
    /\ pc = "done"

ConsecutiveNewlines ==
    \E i \in 1..(Len(tokens) - 1) : tokens[i].kind = "tNL" /\ tokens[i + 1].kind = "tNL"

NextNewlines == NextToken

SpecNewlines == InitNewlines /\ [][NextNewlines]_vars

C30_CommentSkipped ==
    /\ Len(tokens) = 1
    /\ tokens[1].kind = "tIDENTIFIER"
    /\ tokens[1].begin = 6
    /\ lexer.comments # <<>>

----------------------------------------------------------------------------
(* Carriage returns in the middle of a line.                              *)

InitWith(inputs, drivens) ==
    /\ \E input \in inputs, driven \in drivens :
          /\ lexer = NewLexer(input)
          /\ last = [called |-> FALSE, pre |-> NewLexer(input), token |-> NoToken,
                     stalled |-> FALSE, after_eoi |-> FALSE, open_before |-> <<>>,
                     open |-> <<>>, extra |-> 0, driven |-> driven]
    /\ tokens = <<>>
    /\ pc = "lexing"
    /\ builder = NewBuilder
    /\ ret = NoRet

CrAlphabet == {"a", CR, SP, "-", "1"}

CrScenarios ==
    { <<"a", CR, "-", "1", CR, "a">>,
      <<"a", SP, CR, CR, "a">>,
      <<CR, "a", ":", CR>> }

CrInputs(n) == UNION {[1..k -> CrAlphabet] : k \in 0..n} \cup CrScenarios

InitCr == InitWith(CrInputs(MaxLen), {FALSE})

NextCr == NextToken

SpecCr == InitCr /\ [][NextCr]_vars

(* The kinds of all the tokens of an input, lexed from a new lexer until  *)
(* END_OF_INPUT or for at most n calls.                                   *)
RECURSIVE KindsFrom(_, _)
KindsFrom(s, n) ==
    LET Then(r) ==
            IF r.token.kind \in {"END_OF_INPUT", "HANG", "PANIC"} THEN <<>>
            ELSE <<r.token.kind>> \o KindsFrom(r.st, n - 1)
    IN  IF n = 0 THEN <<>> ELSE Then(yylex(s))

WithSpaces(input) == [i \in 1..Len(input) |-> IF input[i] = CR THEN SP ELSE input[i]]

SlashRWarnings ==
    {i \in 1..Len(lexer.diagnostics) :
        lexer.diagnostics[i].message = <<"SlashRAtMiddleOfLine">>}

HoldsCr(token) == \E i \in 1..Len(token.value) : token.value[i] = CR

(* C31: a carriage return in the middle of a line is whitespace: it gives *)
(* no token and is part of none, the token after it is lexed as after a   *)
(* space, and the whole input gets at most one SlashRAtMiddleOfLine.      *)
C31_CrIsWhitespace ==
    /\ \A i \in 1..Len(tokens) : ~HoldsCr(tokens[i])
    /\ pc = "done" =>
          Kinds(tokens) = KindsFrom(NewLexer(WithSpaces(lexer.input)), Len(lexer.input) + 1)
    /\ Cardinality(SlashRWarnings) <= 1

(* A carriage return has been returned as the first byte of an            *)
(* identifier.                                                            *)
C31_Witness ==
    /\ IsTokenCall
    /\ last.token.kind = "tIDENTIFIER"
    /\ last.token.value[1] = CR
    /\ Cardinality(SlashRWarnings) = 1

(* However many carriage returns there are, one warning is recorded.      *)
C31_WarnsOnce == Cardinality(SlashRWarnings) <= 1

C31_TwoCrs ==
    /\ pc = "done"
    /\ Cardinality({i \in 1..Len(lexer.input) : lexer.input[i] = CR}) = 2
    /\ Cardinality(SlashRWarnings) = 1

----------------------------------------------------------------------------
(* Operators: each input is a prefix that brings the lexer into one of   *)
(* the states an operator can be met in, followed by operator bytes.     *)

MaxOperatorLen == 2

OperatorAlphabet == {"*", "!", "=", "<", ">", "&", "^", "/", "~", "+", "-", "@", "a", SP}

OperatorPrefixes == {<<>>, <<".">>, <<":">>, <<"a">>, <<"a", SP>>, <<".", NL>>}

LongOperators ==
    {<<"=", "=", "=">>, <<"<", "=", ">">>, <<"*", "*", "=">>, <<"<", "<", "=">>,
     <<">", ">", "=">>, <<"&", "&", "=">>, <<"|", "|", "=">>, <<"*", "*", "a">>}

OperatorInputs(n) ==
    {prefix \o bytes :
        prefix \in OperatorPrefixes,
        bytes \in UNION {[1..k -> OperatorAlphabet] : k \in 0..n} \cup LongOperators}

InitOperators == InitWith(OperatorInputs(MaxOperatorLen), {FALSE})

(* The scanner of a regexp literal's body is not part of the lexer's     *)
(* dispatch: the run ends where a regexp literal opens.                   *)
NextOperatorToken ==
    /\ lexer.strterm # RegexpLiteral
    /\ NextToken

NextOperators == NextOperatorToken

SpecOperators == InitOperators /\ [][NextOperators]_vars

OperatorKinds ==
    {"tSTAR", "tSTAR2", "tDSTAR", "tPOW", "tBANG", "tNEQ", "tNMATCH", "tEQL", "tEQ",
     "tEQQ", "tMATCH", "tASSOC", "tLT", "tLEQ", "tCMP", "tLSHFT", "tGT", "tGEQ",
     "tRSHFT", "tAMPER", "tAMPER2", "tCARET", "tDIVIDE", "tTILDE", "tPLUS", "tMINUS"}

IsOperatorCall == IsDispatched /\ last.token.kind \in OperatorKinds

(* C32: after an operator token for `*`, `**`, `!`, `!=`, `!~`, `=`,      *)
(* `==`, `===`, `=~`, `=>`, `<`, `<=`, `<=>`, `<<`, `>`, `>=`, `>>`, `&`, *)
(* `^`, `/`, `~`, or binary `+` and `-`, lex_state is EXPR_ARG when the   *)
(* state before the token was in EXPR_FNAME|EXPR_DOT and EXPR_BEG         *)
(* otherwise; after every tOP_ASGN lex_state is EXPR_BEG.                 *)
C32_StateAfterOperator ==
    /\ IsOperatorCall =>
          lexer.lex_state = IF is_some(last.pre.lex_state, EXPR_FNAME \cup EXPR_DOT)
                            THEN EXPR_ARG ELSE EXPR_BEG
    /\ (IsDispatched /\ last.token.kind = "tOP_ASGN") => lexer.lex_state = EXPR_BEG

(* A division met after a method-name position, and one met after a value. *)
C32_Witness ==
    /\ IsOperatorCall
    /\ last.token.kind = "tDIVIDE"
    /\ is_some(last.pre.lex_state, EXPR_FNAME \cup EXPR_DOT)
    /\ lexer.lex_state = EXPR_ARG

C32_DivideAfterValue ==
    /\ IsOperatorCall
    /\ last.token.kind = "tDIVIDE"
    /\ last.pre.lex_state = EXPR_END \cup EXPR_LABEL \/ is_arg(last.pre.lex_state)
    /\ lexer.lex_state = EXPR_BEG

C32_OpAsgnAfterOperator ==
    /\ IsDispatched
    /\ last.token.kind = "tOP_ASGN"
    /\ is_some(last.pre.lex_state, EXPR_FNAME \cup EXPR_DOT)

----------------------------------------------------------------------------
(* Locals: the lexer looks identifiers up in its own StaticEnvironment   *)
(* (Lexer.static_env, main.rs 48); the builder holds the one it was      *)
(* constructed with (Builder.static_env, builder.rs 60, 71), a value of  *)
(* its own.  The builder's calls happen between two calls of the lexer.  *)

LocalAlphabet == {"a", "b", SP, ".", ":", ";"}

LocalInputs(n) == UNION {[1..k -> LocalAlphabet] : k \in 0..n}

InitLocals ==
    /\ \E input \in LocalInputs(MaxLen), declared \in SUBSET {"a"} :
          /\ lexer = [NewLexer(input) EXCEPT !.static_env = {Chars(name) : name \in declared}]
          /\ last = [called |-> FALSE, pre |-> NewLexer(input), token |-> NoToken,
                     stalled |-> FALSE, after_eoi |-> FALSE, open_before |-> <<>>,
                     open |-> <<>>, extra |-> 0, driven |-> FALSE]
          /\ builder = [NewBuilder EXCEPT !.variables = declared]
    /\ tokens = <<>>
    /\ pc = "lexing"
    /\ ret = NoRet

(* The grammar's action for `a = ...`: assignable on the Lvar `a`. *)
AssignLocal ==
    /\ pc = "lexing"
    /\ Len(builder.diagnostics) < MaxDiagnostics
    /\ LET node == [type |-> "Lvar", name |-> "a", expression_l |-> <<0, 1>>]
           Returned(r) ==
               /\ builder' = r.b
               /\ ret' = [called |-> TRUE, op |-> "assignable", node |-> node,
                          pre |-> builder, ok |-> r.ok, result |-> r.node]
       IN  Returned(assignable(builder, node))
    /\ UNCHANGED <<lexer, tokens, last, pc>>

(* The grammar's action for the pattern `in a`: match_var on `a`. *)
MatchLocal ==
    /\ pc = "lexing"
    /\ Len(builder.diagnostics) < MaxDiagnostics
    /\ LET name_t == Token("tIDENTIFIER", "a", 0, 1)
           Returned(r) ==
               /\ builder' = r.b
               /\ ret' = [called |-> TRUE, op |-> "match_var", node |-> name_t,
                          pre |-> builder, ok |-> r.ok, result |-> r.node]
       IN  Returned(match_var(builder, name_t))
    /\ UNCHANGED <<lexer, tokens, last, pc>>

NextLocals == NextToken \/ AssignLocal \/ MatchLocal

SpecLocals == InitLocals /\ [][NextLocals]_vars

IsIdentifierCall == IsDispatched /\ last.token.kind = "tIDENTIFIER"

DeclaredByLexer == last.token.value \in last.pre.static_env

DeclaredByBuilder == \E name \in builder.variables : Chars(name) = last.token.value

UndeclaredState ==
    IF is_some(last.pre.lex_state, EXPR_BEG_ANY \cup EXPR_ARG_ANY \cup EXPR_DOT)
    THEN IF last.pre.command_start THEN EXPR_CMDARG ELSE EXPR_ARG
    ELSE IF last.pre.lex_state = EXPR_FNAME THEN EXPR_ENDFN
    ELSE EXPR_END

(* C33: after an identifier token whose text is a local declared in the  *)
(* static environment, a name the builder declared through assignable or *)
(* match_var since the previous token included, lex_state is             *)
(* EXPR_END|EXPR_LABEL; after an identifier that is not a declared local *)
(* it is EXPR_CMDARG or EXPR_ARG (by cmd_state) when the state before    *)
(* was in BEG_ANY|ARG_ANY|DOT, EXPR_ENDFN when it was EXPR_FNAME, and    *)
(* EXPR_END otherwise.                                                    *)
C33_IdentifierState ==
    IsIdentifierCall =>
        lexer.lex_state = IF DeclaredByLexer \/ DeclaredByBuilder
                          THEN EXPR_END \cup EXPR_LABEL
                          ELSE UndeclaredState

(* The builder has declared `a` and the lexer, not after `.` or a method *)
(* name position, returns `a` without the state of a local.              *)
C33_Witness ==
    /\ IsIdentifierCall
    /\ ret.called /\ ret.ok /\ ret.op \in {"assignable", "match_var"}
    /\ DeclaredByBuilder
    /\ ~is_some(last.pre.lex_state, EXPR_DOT \cup EXPR_FNAME)
    /\ lexer.lex_state # EXPR_END \cup EXPR_LABEL

(* What the lexer does with the names of its own environment: the state *)
(* of a local unless the identifier follows `.` or a method name          *)
(* position, where it is the state of an undeclared identifier.          *)
C33_LexerEnvironment ==
    IsIdentifierCall =>
        lexer.lex_state = IF DeclaredByLexer
                             /\ ~is_some(last.pre.lex_state, EXPR_DOT \cup EXPR_FNAME)
                          THEN EXPR_END \cup EXPR_LABEL
                          ELSE UndeclaredState

C33_LocalOfLexer ==
    /\ IsIdentifierCall
    /\ DeclaredByLexer
    /\ lexer.lex_state = EXPR_END \cup EXPR_LABEL

C33_LocalAfterDot ==
    /\ IsIdentifierCall
    /\ DeclaredByLexer
    /\ is_some(last.pre.lex_state, EXPR_DOT)
    /\ lexer.lex_state = EXPR_ARG

----------------------------------------------------------------------------
(* `do`: inputs made of whole words, the grammar's pushes onto cond and  *)
(* cmdarg, and its action after tLAMBDA.  `ret` notes the lambda body    *)
(* the lexer is in: the paren_nest at which the last kDO_LAMBDA was      *)
(* returned, until the next tLAMBDA opens another lambda.                *)

MaxDoWords == 3

DoWords == {<<"d", "o", SP>>, <<")">>, <<"(">>, <<"-", ">", SP>>, <<"a", SP>>, <<":">>, <<".">>}

RECURSIVE Concat(_)
Concat(words) == IF words = <<>> THEN <<>> ELSE Head(words) \o Concat(Tail(words))

DoInputs(n) == {Concat(words) : words \in UNION {[1..k -> DoWords] : k \in 0..n}}

NoBody == [body |-> FALSE, depth |-> 0, was_body |-> FALSE, was_depth |-> 0]

BodyAfter(b, token, pre) ==
    [body |-> IF token.kind = "kDO_LAMBDA" THEN TRUE
              ELSE IF token.kind = "tLAMBDA" THEN FALSE ELSE b.body,
     depth |-> IF token.kind = "kDO_LAMBDA" THEN pre.paren_nest
               ELSE IF token.kind = "tLAMBDA" THEN 0 ELSE b.depth,
     was_body |-> b.body, was_depth |-> b.depth]

InitDo ==
    /\ \E input \in DoInputs(MaxDoWords), driven \in BOOLEAN :
          /\ lexer = NewLexer(input)
          /\ last = [called |-> FALSE, pre |-> NewLexer(input), token |-> NoToken,
                     stalled |-> FALSE, after_eoi |-> FALSE, open_before |-> <<>>,
                     open |-> <<>>, extra |-> 0, driven |-> driven]
    /\ tokens = <<>>
    /\ pc = "lexing"
    /\ builder = NewBuilder
    /\ ret = NoBody

(* The grammar pushes a bit onto cond and one onto cmdarg. *)
GrammarPush ==
    /\ pc = "lexing"
    /\ ~last.called
    /\ lexer.cond = 0 /\ lexer.cmdarg = 0
    /\ \E c, m \in BOOLEAN :
          /\ c \/ m
          /\ lexer' = [lexer EXCEPT !.cond = StackPush(@, c), !.cmdarg = StackPush(@, m)]
    /\ UNCHANGED <<tokens, last, pc, builder, ret>>

NextDoToken ==
    /\ pc = "lexing"
    /\ LET Returned(r) ==
               /\ lexer' = r.st
               /\ last' = Called(last, r, FALSE)
               /\ tokens' = IF r.token.kind \in {"END_OF_INPUT", "HANG", "PANIC"} THEN tokens
                            ELSE Append(tokens, r.token)
               /\ pc' = CASE r.token.kind = "HANG" -> "hung"
                          [] r.token.kind = "PANIC" -> "panicked"
                          [] r.token.kind = "END_OF_INPUT" -> "done"
                          [] r.token.kind = "tLAMBDA" /\ last.driven -> "lambda"
                          [] OTHER -> "lexing"
               /\ ret' = BodyAfter(ret, r.token, lexer)
       IN  Returned(yylex(lexer))
    /\ UNCHANGED builder

NextDo == GrammarPush \/ NextDoToken \/ LambdaRule

SpecDo == InitDo /\ [][NextDo]_vars

IsDoKeyword ==
    /\ IsDispatched
    /\ last.token.kind \in DoKinds
    /\ ~is_some(last.pre.lex_state, EXPR_DOT \cup EXPR_FNAME)

DoPriority(pre) ==
    IF pre.lpar_beg = pre.paren_nest THEN "kDO_LAMBDA"
    ELSE IF StackIsActive(pre.cond) THEN "kDO_COND"
    ELSE IF StackIsActive(pre.cmdarg) /\ ~is_some(pre.lex_state, EXPR_CMDARG) THEN "kDO_BLOCK"
    ELSE "kDO"

InLambdaBody == ret.was_body /\ last.pre.paren_nest = ret.was_depth

(* C34: a `do` lexed as a keyword is kDO_LAMBDA if lpar_beg = paren_nest, *)
(* else kDO_COND if cond is active, else kDO_BLOCK if cmdarg is active    *)
(* and the state before the keyword lacks EXPR_CMDARG, else kDO; and,     *)
(* kDO_LAMBDA having reset lpar_beg to -1, a later `do` at the same       *)
(* nesting depth inside the lambda body is not kDO_LAMBDA.                *)
C34_DoKeyword ==
    IsDoKeyword =>
        /\ last.token.kind = DoPriority(last.pre)
        /\ last.token.kind = "kDO_LAMBDA" => lexer.lpar_beg = -1
        /\ InLambdaBody => last.token.kind # "kDO_LAMBDA"

(* `)` has brought paren_nest to -1: the `do` of a lambda at that depth  *)
(* and the next `do` of its body are both kDO_LAMBDA.                    *)
C34_Witness ==
    /\ IsDoKeyword
    /\ InLambdaBody
    /\ last.pre.lpar_beg = -1
    /\ last.pre.paren_nest = -1
    /\ last.token.kind = "kDO_LAMBDA"

(* The order of the four kinds, and the reset, taken alone. *)
C34_Priority ==
    IsDoKeyword =>
        /\ last.token.kind = DoPriority(last.pre)
        /\ last.token.kind = "kDO_LAMBDA" => lexer.lpar_beg = -1

(* The body's `do` at a depth that is not negative. *)
C34_NotAgain ==
    IsDoKeyword /\ InLambdaBody /\ ret.was_depth >= 0 => last.token.kind # "kDO_LAMBDA"

C34_BodyDo ==
    /\ IsDoKeyword /\ InLambdaBody /\ ret.was_depth >= 0
    /\ last.token.kind = "kDO"

C34_DoCond == IsDoKeyword /\ last.token.kind = "kDO_COND" /\ StackIsActive(last.pre.cmdarg)

C34_DoBlock == IsDoKeyword /\ last.token.kind = "kDO_BLOCK"

C34_DoAfterCmdarg ==
    /\ IsDoKeyword /\ last.token.kind = "kDO"
    /\ StackIsActive(last.pre.cmdarg) /\ is_some(last.pre.lex_state, EXPR_CMDARG)

----------------------------------------------------------------------------
(* check_condition.  A node is its type, its expression range, its other *)
(* ranges (begin_l and end_l, or operator_l) and its children, each an   *)
(* Option: statements of a Begin, lhs and rhs of And/Or, left and right  *)
(* of a range, re of a MatchCurrentLine.                                 *)

MaxCondDepth == 2

Child(node, i) == node.kids[i][1]

(* The conditions tried: literals, and groups, logical operators and     *)
(* ranges over smaller conditions.  The source text is `(x; y)`,         *)
(* `x && y`, `x..y`: the range of a node covers those of its children.   *)
CondLeaf(type, at) ==
    [type |-> type, expression_l |-> <<at, at + 1>>, other_l |-> <<>>, kids |-> <<>>]

CondLeaves(at) == {CondLeaf(type, at) : type \in {"Regexp", "Int"}}

Group(kids, b, e) ==
    [type |-> "Begin", expression_l |-> <<b, e>>, other_l |-> <<<<b, b + 1>>, <<e - 1, e>>>>,
     kids |-> kids]

Binary(type, l, r, b, e) ==
    [type |-> type, expression_l |-> <<b, e>>,
     other_l |-> <<IF l = <<>> THEN <<b, b + 2>> ELSE <<l[1].expression_l[2], l[1].expression_l[2] + 2>>>>,
     kids |-> <<l, r>>]

RECURSIVE CondNodes(_)
CondNodes(depth) ==
    IF depth = 0 THEN CondLeaves(10)
    ELSE LET smaller == CondNodes(depth - 1)
             Begin(x) == x.expression_l[1]
             End(x) == x.expression_l[2]
         IN  smaller
             \cup {Group(<<>>, 8, 10)}
             \cup {Group(<<<<x>>>>, Begin(x) - 1, End(x) + 1) : x \in smaller}
             \cup UNION {{Group(<<<<x>>, <<y>>>>, Begin(x) - 1, End(x) + 4) :
                             y \in CondLeaves(End(x) + 2)} : x \in smaller}
             \cup UNION {{Binary(type, <<x>>, <<y>>, Begin(x), End(x) + 3) :
                             type \in {"And", "Or", "Irange", "Erange"},
                             y \in CondLeaves(End(x) + 2)} : x \in smaller}
             \cup UNION {{Binary(type, <<y>>, <<x>>, Begin(x) - 3, End(x)) :
                             type \in {"And", "Or", "Irange", "Erange"},
                             y \in CondLeaves(Begin(x) - 3)} : x \in smaller}
             \cup {Binary(type, <<x>>, <<>>, Begin(x), End(x) + 2) :
                      type \in {"Irange", "Erange"}, x \in smaller}
             \cup {Binary(type, <<>>, <<x>>, Begin(x) - 2, End(x)) :
                      type \in {"Irange", "Erange"}, x \in smaller}

InitCondition ==
    /\ \E cond \in CondNodes(MaxCondDepth) :
          ret = [called |-> FALSE, op |-> "check_condition", node |-> cond,
                 pre |-> NewBuilder, ok |-> FALSE, result |-> [type |-> "none"]]
    /\ builder = NewBuilder
    /\ lexer = NewLexer(<<>>)
    /\ last = [called |-> FALSE, pre |-> NewLexer(<<>>), token |-> NoToken,
               stalled |-> FALSE, after_eoi |-> FALSE, open_before |-> <<>>,
               open |-> <<>>, extra |-> 0, driven |-> FALSE]
    /\ tokens = <<>>
    /\ pc = "builder"

CheckCondition ==
    /\ pc = "builder"
    /\ ~ret.called
    /\ ret' = [ret EXCEPT !.called = TRUE, !.ok = TRUE, !.result = check_condition(ret.node)]
    /\ UNCHANGED <<lexer, tokens, last, pc, builder>>

NextCondition == CheckCondition

SpecCondition == InitCondition /\ [][NextCondition]_vars

IsConditionCall == ret.called /\ ret.op = "check_condition"

IsSingleBegin(node) == node.type = "Begin" /\ Len(node.kids) = 1

CheckedOption(kid) == IF kid = <<>> THEN <<>> ELSE <<check_condition(kid[1])>>

(* What the claim says of every node but a single-statement Begin. *)
ConditionRewritten(node, result) ==
    /\ node.type \in {"And", "Or"} =>
          result = [node EXCEPT !.kids = <<CheckedOption(node.kids[1]),
                                           CheckedOption(node.kids[2])>>]
    /\ node.type \in {"Irange", "Erange"} =>
          /\ result.type = IF node.type = "Irange" THEN "IFlipFlop" ELSE "EFlipFlop"
          /\ result.kids = <<CheckedOption(node.kids[1]), CheckedOption(node.kids[2])>>
          /\ result.other_l = node.other_l
    /\ node.type = "Regexp" =>
          result.type = "MatchCurrentLine" /\ result.kids = <<<<node>>>>
    /\ (node.type \notin {"And", "Or", "Irange", "Erange", "Regexp", "Begin"}
        \/ (node.type = "Begin" /\ Len(node.kids) # 1)) => result = node
    /\ result.expression_l = node.expression_l
    /\ check_condition(result) = result

(* C35: check_condition unwraps a single-statement Begin, recurses into  *)
(* both operands of And/Or, rewrites Irange/Erange into IFlipFlop/       *)
(* EFlipFlop with itself applied to the endpoints, and a bare Regexp     *)
(* into MatchCurrentLine; every other node, and a Begin of zero or       *)
(* several statements, is returned unchanged; the result has the         *)
(* expression range of the input, and applying it twice gives what       *)
(* applying it once gives.                                               *)
C35_Unwraps ==
    IsConditionCall =>
        /\ IsSingleBegin(ret.node) => ret.result = check_condition(Child(ret.node, 1))
        /\ ConditionRewritten(ret.node, ret.result)

(* C35, amended: the same, but a single-statement Begin is kept: the     *)
(* result is the Begin with its ranges, and its statement is             *)
(* check_condition of the statement.                                     *)
C35_KeepsBegin ==
    IsConditionCall =>
        /\ IsSingleBegin(ret.node) =>
              ret.result = [ret.node EXCEPT !.kids = <<CheckedOption(ret.node.kids[1])>>]
        /\ ConditionRewritten(ret.node, ret.result)

(* `(/a/ && 1)`: the group is kept, and the Regexp inside the And inside *)
(* it has become a MatchCurrentLine.                                     *)
C35_Witness ==
    /\ IsConditionCall
    /\ IsSingleBegin(ret.node)
    /\ ret.result.type = "Begin"
    /\ Child(ret.node, 1).type = "And"
    /\ Child(Child(ret.node, 1), 2).type = "Regexp"
    /\ Child(Child(ret.result, 1), 2).type = "MatchCurrentLine"
    /\ ret.result.expression_l # Child(ret.result, 1).expression_l

----------------------------------------------------------------------------
(* The operators that need values: binary_op, match_op, unary_op, not_op *)
(* and logical_op, each called once on operands drawn below.             *)

MaxVoidDepth == 1

SendNode(recv, method_name, arguments, selector_l, begin_l, end_l, expression_l) ==
    [type |-> "Send", recv |-> <<recv>>, method_name |-> method_name, args |-> arguments,
     selector_l |-> <<selector_l>>, begin_l |-> begin_l, end_l |-> end_l,
     expression_l |-> expression_l]

join_exprs(lhs, rhs) == join(lhs.expression_l, rhs.expression_l)

(* build_static_regexp (feature "onig"): the regexp compiled from the     *)
(* static source, or None and the error RegexError when Onigmo rejects   *)
(* it; None without a diagnostic for a regexp with interpolation.  The   *)
(* node carries what Onigmo answers: regex_error, or the names of the    *)
(* named groups.  Without the feature the answer is None for every node. *)
build_static_regexp(b, node) ==
    IF node.regex_error # <<>>
    THEN [b |-> error(b, <<"RegexError", node.regex_error[1]>>, node.expression_l),
          regex |-> <<>>]
    ELSE [b |-> b, regex |-> node.names]

(* The names of the named groups of a static regexp, None for another    *)
(* node.                                                                  *)
static_regexp_captures(b, node) ==
    IF node.type = "Regexp" THEN build_static_regexp(b, node)
    ELSE [b |-> b, regex |-> <<>>]

binary_op(b, receiver, operator_t, arg) ==
    LET Second(v) ==
            IF ~v.ok THEN Err(v.b)
            ELSE Ok(v.b, SendNode(receiver, value(operator_t), <<arg>>, loc(operator_t),
                                  <<>>, <<>>, join_exprs(receiver, arg)))
        First(v) == IF ~v.ok THEN Err(v.b) ELSE Second(value_expr(v.b, arg))
    IN  First(value_expr(b, receiver))

match_op(b, receiver, match_t, arg) ==
    LET Named(c, captures) ==
            IF captures # <<>>
            THEN Ok([c EXCEPT !.variables =
                        @ \cup {captures[1][i] : i \in 1..Len(captures[1])}],
                    [type |-> "MatchWithLvasgn", re |-> receiver, value |-> arg,
                     operator_l |-> loc(match_t),
                     expression_l |-> join_exprs(receiver, arg)])
            ELSE Ok(c, SendNode(receiver, "=~", <<arg>>, loc(match_t), <<>>, <<>>,
                                join_exprs(receiver, arg)))
        Matched(r) == Named(r.b, r.regex)
        Second(v) == IF ~v.ok THEN Err(v.b)
                     ELSE Matched(static_regexp_captures(v.b, receiver))
        First(v) == IF ~v.ok THEN Err(v.b) ELSE Second(value_expr(v.b, arg))
    IN  First(value_expr(b, receiver))

unary_op(b, op_t, receiver) ==
    LET op == value(op_t)
        method == IF op = "+" THEN "+@" ELSE IF op = "-" THEN "-@" ELSE op
        First(v) ==
            IF ~v.ok THEN Err(v.b)
            ELSE Ok(v.b, SendNode(receiver, method, <<>>, loc(op_t), <<>>, <<>>,
                                  join(receiver.expression_l, loc(op_t))))
    IN  First(value_expr(b, receiver))

not_op(b, not_t, begin_t, receiver, end_t) ==
    IF receiver # <<>>
    THEN LET end_l == IF end_t # <<>> THEN loc(end_t[1]) ELSE receiver[1].expression_l
             First(v) ==
                 IF ~v.ok THEN Err(v.b)
                 ELSE Ok(v.b, SendNode(check_condition(receiver[1]), "!", <<>>, loc(not_t),
                                       maybe_loc(begin_t), maybe_loc(end_t),
                                       join(loc(not_t), end_l)))
         IN  First(value_expr(b, receiver[1]))
    ELSE LET Nil(m) ==
                 IF m.expression_l = <<>> THEN Panic(b)
                 ELSE Ok(b, SendNode([type |-> "Begin", expression_l |-> m.expression_l[1],
                                      kids |-> <<>>, begin_l |-> m.begin_l,
                                      end_l |-> m.end_l],
                                     "!", <<>>, loc(not_t), <<>>, <<>>,
                                     join(m.expression_l[1], loc(not_t))))
         IN  Nil(collection_map(begin_t, <<>>, end_t))

logical_opMutant(b, type_, lhs, op_t, rhs) ==
    Ok(b, [type |-> type_, kids |-> <<<<lhs>>, <<rhs>>>>, operator_l |-> loc(op_t),
           expression_l |-> join_exprs(lhs, rhs)])

logical_op(b, type_, lhs, op_t, rhs) ==
    LET First(v) ==
            IF ~v.ok THEN Err(v.b)
            ELSE Ok(v.b, [type |-> type_, kids |-> <<<<lhs>>, <<rhs>>>>,
                          operator_l |-> loc(op_t),
                          expression_l |-> join_exprs(lhs, rhs)])
    IN  First(value_expr(b, lhs))

(* Operands: the five jumps and a literal, and groups, conditionals,     *)
(* logical operators and pattern matches over smaller operands.          *)
Jumps == {"Return", "Break", "Next", "Redo", "Retry"}

VoidLeaves(at) == {Leaf(type, at) : type \in Jumps \cup {"Int"}}

Seconds2(at) == {Leaf(type, at) : type \in {"Break", "Int"}}

Composite(type, kids, b, e) == [type |-> type, expression_l |-> <<b, e>>, kids |-> kids]

RECURSIVE VoidNodes(_)
VoidNodes(depth) ==
    IF depth = 0 THEN VoidLeaves(10)
    ELSE LET smaller == VoidNodes(depth - 1)
             B(x) == x.expression_l[1]
             E(x) == x.expression_l[2]
         IN  smaller
             \cup {Composite(type, <<>>, 8, 10) : type \in {"Begin", "KwBegin"}}
             \cup {Composite(type, <<<<x>>>>, B(x) - 1, E(x) + 1) :
                      type \in {"Begin", "KwBegin"}, x \in smaller}
             \cup UNION {{Composite("Begin", <<<<y>>, <<x>>>>, B(x) - 3, E(x) + 1) :
                             y \in Seconds2(B(x) - 2)} : x \in smaller}
             \cup UNION {{Composite(type, <<<<x>>, oy>>, B(x) - 3, E(x) + 6) :
                             type \in {"If", "IfMod"},
                             oy \in {<<>>} \cup {<<y>> : y \in Seconds2(E(x) + 2)}} :
                         x \in smaller}
             \cup {Composite("If", <<<<>>, <<x>>>>, B(x) - 8, E(x) + 4) : x \in smaller}
             \cup UNION {{Composite("IfTernary", <<<<x>>, <<y>>>>, B(x) - 2, E(x) + 3) :
                             y \in Seconds2(E(x) + 2)} : x \in smaller}
             \cup UNION {{Composite(type, <<<<x>>, <<y>>>>, B(x), E(x) + 4) :
                             type \in {"And", "Or"}, y \in Seconds2(E(x) + 3)} :
                         x \in smaller}
             \cup UNION {{Composite("And", <<<<y>>, <<x>>>>, B(x) - 4, E(x)) :
                             y \in Seconds2(B(x) - 4)} : x \in smaller}
             \cup {Composite("InMatch", <<<<x>>, <<Leaf("MatchVar", E(x) + 4)>>>>,
                             B(x), E(x) + 5) : x \in smaller}

(* An operand as the operators take it; a Regexp carries the names of    *)
(* its named groups when it is static.                                   *)
Operand(node) ==
    [type |-> node.type, expression_l |-> node.expression_l, kids |-> node.kids,
     names |-> <<>>, regex_error |-> <<>>]

RegexpOperands ==
    {[type |-> "Regexp", expression_l |-> <<10, 11>>, kids |-> <<>>, names |-> names,
      regex_error |-> <<>>] :
        names \in {<<>>, <<<<>>>>, <<<<"a">>>>, <<<<"a", FORWARD_ARGS>>>>}}
    \cup {[type |-> "Regexp", expression_l |-> <<10, 11>>, kids |-> <<>>, names |-> <<>>,
           regex_error |-> <<"end pattern with unmatched parenthesis">>]}

Receivers(depth) == {Operand(node) : node \in VoidNodes(depth)} \cup RegexpOperands

Arguments ==
    {Operand(node) :
        node \in {Leaf("Int", 20), Leaf("Retry", 20),
                  Composite("KwBegin", <<<<Leaf("Int", 21)>>, <<Leaf("Next", 23)>>>>, 20, 25),
                  Composite("If", <<<<Leaf("Redo", 23)>>, <<Leaf("Int", 25)>>>>, 20, 27)}}

OperatorCalls(depth) ==
    {<<op, receiver, arg>> :
        op \in {"binary_op", "match_op", "logical_op"},
        receiver \in Receivers(depth), arg \in Arguments}
    \cup {<<op, arg, receiver>> :
        op \in {"binary_op", "match_op", "logical_op"},
        receiver \in Receivers(depth), arg \in Arguments}
    \cup {<<op, receiver>> : op \in {"unary_op", "not_op", "value_expr"},
                             receiver \in Receivers(depth)}
    \cup {<<"not_op">>}

InitOperands ==
    /\ \E call \in OperatorCalls(MaxVoidDepth) :
          ret = [called |-> FALSE, op |-> call[1], node |-> Tail(call),
                 pre |-> NewBuilder, ok |-> FALSE, result |-> [type |-> "none"]]
    /\ builder = NewBuilder
    /\ lexer = NewLexer(<<>>)
    /\ last = [called |-> FALSE, pre |-> NewLexer(<<>>), token |-> NoToken,
               stalled |-> FALSE, after_eoi |-> FALSE, open_before |-> <<>>,
               open |-> <<>>, extra |-> 0, driven |-> FALSE]
    /\ tokens = <<>>
    /\ pc = "builder"

Returns(r) ==
    /\ builder' = r.b
    /\ ret' = [ret EXCEPT !.called = TRUE, !.ok = r.ok, !.result = r.node]
    /\ UNCHANGED <<lexer, tokens, last, pc>>

OperandValueExpr ==
    /\ pc = "builder" /\ ~ret.called /\ ret.op = "value_expr"
    /\ Returns(value_expr(builder, ret.node[1]))

BinaryOp ==
    /\ pc = "builder" /\ ~ret.called /\ ret.op = "binary_op"
    /\ Returns(binary_op(builder, ret.node[1], Token("tPLUS", "+", 15, 16), ret.node[2]))

MatchOp ==
    /\ pc = "builder" /\ ~ret.called /\ ret.op = "match_op"
    /\ Returns(match_op(builder, ret.node[1], Token("tMATCH", "=~", 15, 17), ret.node[2]))

UnaryOp ==
    /\ pc = "builder" /\ ~ret.called /\ ret.op = "unary_op"
    /\ \E op \in {"-", "~"} :
          Returns(unary_op(builder, Token("tUMINUS", op, 0, 1), ret.node[1]))

NotOp ==
    /\ pc = "builder" /\ ~ret.called /\ ret.op = "not_op"
    /\ \E parens \in BOOLEAN :
          /\ ret.node = <<>> => parens
          /\ Returns(not_op(builder, Token("kNOT", "not", 0, 3),
                            IF parens THEN <<Token("tLPAREN2", "(", 3, 4)>> ELSE <<>>,
                            IF ret.node = <<>> THEN <<>> ELSE <<ret.node[1]>>,
                            IF parens THEN <<Token("tRPAREN", ")", 30, 31)>> ELSE <<>>))

LogicalOp ==
    /\ pc = "builder" /\ ~ret.called /\ ret.op = "logical_op"
    /\ \E type_ \in {"And", "Or"} :
          Returns(logical_op(builder, type_, ret.node[1],
                             Token("tANDOP", "&&", 15, 17), ret.node[2]))

NextOperands ==
    OperandValueExpr \/ BinaryOp \/ MatchOp \/ UnaryOp \/ NotOp \/ LogicalOp

SpecOperands == InitOperands /\ [][NextOperands]_vars

(* Structurally void, as the claim spells it out. *)
RECURSIVE IsVoid(_)
IsVoid(node) ==
    \/ node.type \in Jumps
    \/ node.type \in {"Begin", "KwBegin"} /\ node.kids # <<>>
       /\ IsVoid(node.kids[Len(node.kids)][1])
    \/ node.type \in {"And", "Or"} /\ IsVoid(node.kids[1][1])
    \/ node.type = "InMatch" /\ IsVoid(node.kids[1][1])
    \/ node.type \in {"If", "IfMod", "IfTernary"}
       /\ node.kids[1] # <<>> /\ node.kids[2] # <<>>
       /\ IsVoid(node.kids[1][1]) /\ IsVoid(node.kids[2][1])

RECURSIVE VoidRanges(_)
VoidRanges(node) ==
    (IF IsVoid(node) THEN {node.expression_l} ELSE {})
    \cup UNION {VoidRanges(node.kids[i][1]) :
                   i \in {j \in 1..Len(node.kids) : node.kids[j] # <<>>}}

IsOperandCall(ops) == pc = "builder" /\ ret.called /\ ret.op \in ops

ValueExprRejectsVoid ==
    IsOperandCall({"value_expr"}) =>
        /\ ~ret.ok <=> IsVoid(ret.node[1])
        /\ ret.ok => Recorded = <<>>
        /\ ~ret.ok =>
              /\ Len(Recorded) = 1
              /\ Recorded[1].level = "Error"
              /\ Recorded[1].message = <<"VoidValueExpression">>
              /\ <<Recorded[1].begin, Recorded[1].end>> \in VoidRanges(ret.node[1])

BuildsNoNode == ~ret.ok /\ ret.result = [type |-> "none"]

(* C36: value_expr returns Err and records exactly one                   *)
(* VoidValueExpression error, at the range of the void sub-node, exactly *)
(* when the node is structurally void; binary_op, match_op, unary_op,    *)
(* not_op and logical_op build no node when an operand is void.          *)
C36_VoidOperand ==
    /\ ValueExprRejectsVoid
    /\ IsOperandCall({"binary_op", "match_op", "unary_op", "not_op", "logical_op"})
       /\ (\E i \in 1..Len(ret.node) : IsVoid(ret.node[i]))
           => BuildsNoNode

(* C36, amended: the same, but logical_op looks at its left operand      *)
(* only: with a left operand that has a value it builds the And or Or    *)
(* node whatever the right operand is.                                   *)
C36_VoidOperandButRhs ==
    /\ ValueExprRejectsVoid
    /\ IsOperandCall({"binary_op", "match_op", "unary_op", "not_op"})
       /\ (\E i \in 1..Len(ret.node) : IsVoid(ret.node[i]))
           => BuildsNoNode
    /\ IsOperandCall({"logical_op"}) =>
           IF IsVoid(ret.node[1]) THEN BuildsNoNode
           ELSE ret.ok /\ ret.result.type \in {"And", "Or"} /\ Recorded = <<>>

(* `1 && retry`: logical_op builds the node. *)
C36_Witness ==
    /\ IsOperandCall({"logical_op"})
    /\ ~IsVoid(ret.node[1])
    /\ IsVoid(ret.node[2])
    /\ ret.ok
    /\ ret.result.type = "And"

(* A binary operator whose argument alone is void, and value_expr on a   *)
(* conditional whose branches are both void.                             *)
C36_VoidArgument ==
    /\ IsOperandCall({"binary_op"})
    /\ ~IsVoid(ret.node[1]) /\ IsVoid(ret.node[2])
    /\ BuildsNoNode
    /\ Len(Recorded) = 1

C36_VoidConditional ==
    /\ IsOperandCall({"value_expr"})
    /\ ret.node[1].type = "If"
    /\ ~ret.ok
    /\ <<Recorded[1].begin, Recorded[1].end>> = ret.node[1].kids[1][1].expression_l

----------------------------------------------------------------------------
(* Embedded documents: inputs made of whole lines. *)

MaxDocLines == 3

BEGIN_LINE == <<"=", "b", "e", "g", "i", "n">>
END_LINE == <<"=", "e", "n", "d">>

DocLines ==
    {BEGIN_LINE \o <<NL>>, BEGIN_LINE, END_LINE \o <<NL>>, END_LINE,
     END_LINE \o <<SP, "a", NL>>, <<"a", NL>>, <<"a", SP>> \o BEGIN_LINE \o <<NL>>}

DocInputs(n) == {Concat(lines) : lines \in UNION {[1..k -> DocLines] : k \in 0..n}}

(* Documents that hold a byte beyond ASCII: 0xFF, which no UTF-8 text    *)
(* holds, and the two bytes of U+00E9.                                    *)
DocScenarios ==
    {BEGIN_LINE \o <<NL, BYTE_FF>>,
     BEGIN_LINE \o <<NL, BYTE_FF, NL>> \o END_LINE \o <<NL, "a", NL>>,
     <<"a", NL>> \o BEGIN_LINE \o <<NL, "0xC3", "0xA9", NL>>}

InitDocs == InitWith(DocInputs(MaxDocLines) \cup DocScenarios, {FALSE})

NextDocs == NextToken

SpecDocs == InitDocs /\ [][NextDocs]_vars

(* The input read line by line: where each document begins and ends.     *)
WordAt(input, p, word) ==
    /\ p + Len(word) <= Len(input)
    /\ \A i \in 1..Len(word) : input[p + i] = word[i]
    /\ p + Len(word) = Len(input) \/ ~IsIdentByte(input[p + Len(word) + 1])

RECURSIVE EndOfLine(_, _)
EndOfLine(input, p) ==
    IF p >= Len(input) THEN Len(input)
    ELSE IF input[p + 1] = NL THEN p + 1
    ELSE EndOfLine(input, p + 1)

(* Documents(input, p, start): the documents from the line that begins   *)
(* at p on, `start` being where the document still open began, or -1.    *)
RECURSIVE Documents(_, _, _)
Documents(input, p, start) ==
    LET Shut(rest) == [rest EXCEPT !.closed = <<<<start, EndOfLine(input, p)>>>> \o @]
    IN  IF p >= Len(input) THEN [closed |-> <<>>, open |-> start]
        ELSE IF start = -1
        THEN Documents(input, EndOfLine(input, p),
                       IF WordAt(input, p, BEGIN_LINE) THEN p ELSE -1)
        ELSE IF WordAt(input, p, END_LINE)
        THEN Shut(Documents(input, EndOfLine(input, p), -1))
        ELSE Documents(input, EndOfLine(input, p), start)

InDocument(docs, p) ==
    \/ \E i \in 1..Len(docs.closed) : docs.closed[i][1] <= p /\ p < docs.closed[i][2]
    \/ docs.open # -1 /\ docs.open <= p

(* The input without its documents. *)
WithoutDocuments(input, docs) ==
    LET kept == {p \in 0..(Len(input) - 1) : ~InDocument(docs, p)}
        Nth(i) == CHOOSE p \in kept : Cardinality({q \in kept : q < p}) = i - 1
    IN  [i \in 1..Cardinality(kept) |-> input[Nth(i) + 1]]

DocumentErrors ==
    {i \in 1..Len(lexer.diagnostics) :
        lexer.diagnostics[i].message = <<"EmbeddedDocumentMeetsEof">>}

EmbeddedDocuments(docs) ==
    /\ \A i \in 1..Len(tokens) : ~InDocument(docs, tokens[i].begin)
    /\ lexer.comments = docs.closed
    /\ Kinds(tokens) = KindsFrom(NewLexer(WithoutDocuments(lexer.input, docs)),
                                 Len(lexer.input) + 1)
    /\ IF docs.open = -1 THEN DocumentErrors = {}
       ELSE /\ Cardinality(DocumentErrors) = 1
            /\ \A i \in DocumentErrors :
                  /\ lexer.diagnostics[i].level = "Error"
                  /\ lexer.diagnostics[i].begin = docs.open
                  /\ lexer.diagnostics[i].end = docs.open + 6
            /\ last.token.kind = "END_OF_INPUT"
            /\ last.pre.pcur <= docs.open
    /\ \A p \in 0..(Len(lexer.input) - 1) :
          WordAt(lexer.input, p, BEGIN_LINE) /\ ~InDocument(docs, p) =>
              \E i \in 1..Len(tokens) :
                  tokens[i].begin = p /\ tokens[i].end = p + 1 /\ tokens[i].kind = "tEQL"

(* C37: `=begin` at the beginning of a line opens an embedded document.  *)
(* When a later line starts with `=end`, the document gives no token,    *)
(* exactly one Comment from `=begin` to the end of the `=end` line, and  *)
(* lexing goes on after that line; when no line does, exactly one        *)
(* EmbeddedDocumentMeetsEof error is recorded at the range of `=begin`   *)
(* and END_OF_INPUT is returned.  `=begin` elsewhere in a line is the    *)
(* operator `=`.  Checked when the run is over, whichever way it ended.  *)
C37_EmbeddedDocument ==
    pc \in {"done", "panicked"} => EmbeddedDocuments(Documents(lexer.input, 0, -1))

(* A document that no `=end` closes and that holds the byte 0xFF: the    *)
(* error is recorded, and the call panics where it makes the value of    *)
(* the token from the bytes read, so END_OF_INPUT is not returned.       *)
C37_PanicInDocument ==
    /\ pc = "panicked"
    /\ lexer.input = BEGIN_LINE \o <<NL, BYTE_FF>>
    /\ Documents(lexer.input, 0, -1).open = 0
    /\ Cardinality(DocumentErrors) = 1
    /\ last.token.kind = "PANIC"
    /\ tokens = <<>>

(* A document closed by `=end`, and a line of code after it. *)
C37_Witness ==
    /\ pc = "done"
    /\ Len(lexer.comments) = 1
    /\ lexer.comments[1][2] < Len(lexer.input)
    /\ Kinds(tokens) = <<"tIDENTIFIER", "tNL">>
    /\ tokens[1].begin = lexer.comments[1][2]

C37_MeetsEof ==
    /\ pc = "done"
    /\ Cardinality(DocumentErrors) = 1
    /\ Len(lexer.comments) = 1

C37_NotAtLineStart ==
    /\ pc = "done"
    /\ lexer.comments = <<>> /\ DocumentErrors = {}
    /\ \E i \in 1..Len(tokens) : tokens[i].kind = "tEQL"

----------------------------------------------------------------------------
(* `||`: a prefix that sets the state, then bytes around `|`. *)

PipeAlphabet == {"|", "=", "a", SP}

PipePrefixes == {<<>>, <<"a">>, <<"a", SP>>, <<".">>, <<":">>, <<"(">>, <<"a", NL>>}

PipeInputs(n) ==
    {prefix \o bytes :
        prefix \in PipePrefixes,
        bytes \in UNION {[1..k -> PipeAlphabet] : k \in 0..n} \cup {<<"|", "|", "|", "=">>}}

InitPipes == InitWith(PipeInputs(MaxLen), {FALSE})

NextPipes == NextToken

SpecPipes == InitPipes /\ [][NextPipes]_vars

(* The bytes of the input at offset p are `word`. *)
BytesAt(input, p, word) ==
    /\ p + Len(word) <= Len(input)
    /\ \A i \in 1..Len(word) : input[p + i] = word[i]

OrAt(p) == BytesAt(lexer.input, p, <<"|", "|">>)
OrAsgnAt(p) == BytesAt(lexer.input, p, <<"|", "|", "=">>)

IsTokenAt(token, kind, b, e) == token.kind = kind /\ token.begin = b /\ token.end = e

(* C38: `||` met in a state that contains EXPR_BEG is returned as two    *)
(* successive tPIPE tokens of one byte each, not as tOROP; in every      *)
(* other state it is one tOROP; `||=` is one tOP_ASGN in every state.    *)
C38_OrOperator ==
    /\ IsDispatched /\ IsTokenCall /\ OrAt(last.token.begin) =>
          LET b == last.token.begin
          IN  IF OrAsgnAt(b) THEN IsTokenAt(last.token, "tOP_ASGN", b, b + 3)
              ELSE IF is_some(last.pre.lex_state, EXPR_BEG)
              THEN IsTokenAt(last.token, "tPIPE", b, b + 1)
              ELSE IsTokenAt(last.token, "tOROP", b, b + 2)
    /\ IsDispatched /\ IsTokenCall /\ Len(tokens) >= 2 =>
          LET first == tokens[Len(tokens) - 1]
          IN  first.kind = "tPIPE" /\ OrAt(first.begin) /\ ~OrAsgnAt(first.begin + 1)
                  => IsTokenAt(last.token, "tPIPE", first.begin + 1, first.begin + 2)

(* `||` at the start of the input: the second tPIPE has been returned. *)
C38_Witness ==
    /\ IsDispatched /\ IsTokenCall /\ Len(tokens) >= 2
    /\ IsTokenAt(tokens[Len(tokens) - 1], "tPIPE", 0, 1)
    /\ OrAt(0)
    /\ IsTokenAt(last.token, "tPIPE", 1, 2)

C38_OrAfterValue ==
    /\ IsDispatched /\ IsTokenCall
    /\ OrAt(last.token.begin)
    /\ last.token.kind = "tOROP"
    /\ is_arg(last.pre.lex_state)

C38_OrAsgnAtStart ==
    /\ IsDispatched /\ IsTokenCall
    /\ OrAsgnAt(last.token.begin)
    /\ is_some(last.pre.lex_state, EXPR_BEG)
    /\ last.token.kind = "tOP_ASGN"

----------------------------------------------------------------------------
(* `&` before an argument: `a`, a space, and bytes around `&`.  The run  *)
(* ends where a quoted symbol opens.                                     *)

AmpersandAlphabet == {"&", ":", "a", SP}

(* A quote stands only where it opens a symbol: after `&:`. *)
AmpersandInputs(n) ==
    {prefix \o bytes \o quoted :
        prefix \in {<<"a", SP>>, <<"a">>, <<>>},
        bytes \in UNION {[1..k -> AmpersandAlphabet] : k \in 0..n},
        quoted \in {<<>>, <<"&", ":", "'">>, <<"&", ":", "\"">>}}

InitAmpersand == InitWith(AmpersandInputs(MaxLen), {FALSE})

NextAmpersandToken ==
    /\ lexer.strterm = NoStrTerm
    /\ NextToken

NextAmpersand == NextAmpersandToken

SpecAmpersand == InitAmpersand /\ [][NextAmpersand]_vars

InputAt(p) == IF p < Len(lexer.input) THEN lexer.input[p + 1] ELSE EOF

(* The call met `&` in space-arg position: in an argument state, after   *)
(* white space, with no white space after it (and the `&` is not the     *)
(* first byte of `&&`, `&=` or `&.`).                                    *)
AmpersandAsArgument ==
    /\ IsDispatched /\ IsTokenCall
    /\ InputAt(last.token.begin) = "&"
    /\ InputAt(last.token.begin + 1) \notin {"&", "=", "."}
    /\ is_arg(last.pre.lex_state)
    /\ last.pre.pcur < last.token.begin
    /\ \A p \in last.pre.pcur..(last.token.begin - 1) : InputAt(p) = SP
    /\ ~is_space(InputAt(last.token.begin + 1))

SymbolStartAt(p) ==
    /\ InputAt(p) = ":"
    /\ InputAt(p + 1) \in {"'", "\""} \/ IsIdentByte(InputAt(p + 1))

AmpersandWarnings(st) ==
    {i \in 1..Len(st.diagnostics) :
        st.diagnostics[i].message = <<"AmpersandInterpretedAsArgPrefix">>}

WarnedAmpersand == AmpersandWarnings(lexer) # AmpersandWarnings(last.pre)

(* C39: `&` in space-arg position is tAMPER, and                         *)
(* AmpersandInterpretedAsArgPrefix is recorded unless the `&` is         *)
(* directly followed by the start of a symbol literal, `:` and a quote   *)
(* or an identifier byte, in which case it is not.                       *)
C39_AmpersandPrefix ==
    AmpersandAsArgument =>
        /\ last.token.kind = "tAMPER"
        /\ WarnedAmpersand <=> ~SymbolStartAt(last.token.begin + 1)

(* `a &:a`: the warning is recorded before a symbol. *)
C39_Witness ==
    /\ AmpersandAsArgument
    /\ SymbolStartAt(last.token.begin + 1)
    /\ last.token.kind = "tAMPER"
    /\ WarnedAmpersand

(* What the code does: tAMPER, and the warning every time. *)
C39_AlwaysWarns ==
    AmpersandAsArgument => last.token.kind = "tAMPER" /\ WarnedAmpersand

C39_QuotedSymbol ==
    /\ AmpersandAsArgument
    /\ InputAt(last.token.begin + 1) = ":"
    /\ InputAt(last.token.begin + 2) = "\""
    /\ WarnedAmpersand

----------------------------------------------------------------------------
(* The builder's environment under the calls that declare names: scopes  *)
(* open and close, `...` declares the forwarded arguments, and local     *)
(* assignments, pattern variables and regexp captures declare the names  *)
(* the program wrote.  ret.node says, for the current scope and for each *)
(* saved one, whether declare_forward_args was called in it or inherited *)
(* by it.                                                                 *)

NotForwarded == [forward |-> FALSE, saved |-> <<>>]

InitForward ==
    /\ builder = NewBuilder
    /\ ret = [NoRet EXCEPT !.node = NotForwarded]
    /\ lexer = NewLexer(<<>>)
    /\ last = [called |-> FALSE, pre |-> NewLexer(<<>>), token |-> NoToken,
               stalled |-> FALSE, after_eoi |-> FALSE, open_before |-> <<>>,
               open |-> <<>>, extra |-> 0, driven |-> FALSE]
    /\ tokens = <<>>
    /\ pc = "builder"

ForwardCall(op, r, forwarded) ==
    /\ builder' = r.b
    /\ ret' = [called |-> TRUE, op |-> op, node |-> forwarded, pre |-> builder,
               ok |-> r.ok, result |-> r.node]
    /\ UNCHANGED <<lexer, tokens, last, pc>>

OpenStatic ==
    /\ pc = "builder"
    /\ Len(builder.stack) < MaxBlockDepth
    /\ ForwardCall("extend_static", Ok(extend_static(builder), [type |-> "none"]),
                   [forward |-> FALSE, saved |-> Append(ret.node.saved, ret.node.forward)])

OpenDynamic ==
    /\ pc = "builder"
    /\ Len(builder.stack) < MaxBlockDepth
    /\ ForwardCall("extend_dynamic", Ok(extend_dynamic(builder), [type |-> "none"]),
                   [forward |-> ret.node.forward,
                    saved |-> Append(ret.node.saved, ret.node.forward)])

CloseScope ==
    /\ pc = "builder"
    /\ builder.stack # <<>>
    /\ ForwardCall("unextend", Ok(unextend(builder), [type |-> "none"]),
                   [forward |-> ret.node.saved[Len(ret.node.saved)],
                    saved |-> SubSeq(ret.node.saved, 1, Len(ret.node.saved) - 1)])

DeclareForwardArgs ==
    /\ pc = "builder"
    /\ ForwardCall("declare_forward_args",
                   Ok(declare_forward_args(builder), [type |-> "none"]),
                   [ret.node EXCEPT !.forward = TRUE])

(* `a = ...`, `_a = ...`: the names are identifiers of the lexer. *)
AssignName ==
    /\ pc = "builder"
    /\ Len(builder.diagnostics) < MaxDiagnostics
    /\ \E name \in {"a", "_a"} :
          ForwardCall("assignable",
                      assignable(builder, [type |-> "Lvar", name |-> name,
                                           expression_l |-> <<0, 1>>]),
                      ret.node)

(* `in a`, `in _a`, and the key `A:` of a hash pattern. *)
MatchName ==
    /\ pc = "builder"
    /\ Len(builder.diagnostics) < MaxDiagnostics
    /\ \E name \in PatternNames :
          ForwardCall("match_var", match_var(builder, Token("tIDENTIFIER", name, 0, 1)),
                      ret.node)

(* `/(?<a>.)(?<FORWARD_ARGS>.)/ =~ 1`, and regexps with other captures. *)
MatchCaptures ==
    /\ pc = "builder"
    /\ Len(builder.diagnostics) < MaxDiagnostics
    /\ \E receiver \in RegexpOperands :
          ForwardCall("match_op",
                      match_op(builder, receiver, Token("tMATCH", "=~", 15, 17),
                               Operand(Leaf("Int", 20))),
                      ret.node)

ResetScopes ==
    /\ pc = "builder"
    /\ ForwardCall("reset", Ok(reset(builder), [type |-> "none"]), NotForwarded)

NextForward ==
    \/ OpenStatic \/ OpenDynamic \/ CloseScope \/ DeclareForwardArgs \/ ResetScopes
    \/ AssignName \/ MatchName \/ MatchCaptures

SpecForward == InitForward /\ [][NextForward]_vars

(* C40: declared_forward_args() is true in a scope only if               *)
(* declare_forward_args() was called in that scope or the scope          *)
(* inherited it through extend_dynamic; the names that assignments,      *)
(* pattern variables and regexp captures declare never make it true.     *)
C40_ForwardArgsOnlyDeclared ==
    declared_forward_args(builder) => ret.node.forward

(* A regexp capture made declared_forward_args() true in a scope where   *)
(* declare_forward_args() was never called.                              *)
C40_Witness ==
    /\ ret.called /\ ret.op = "match_op" /\ ret.ok
    /\ ret.result.type = "MatchWithLvasgn"
    /\ ~declared_forward_args(ret.pre)
    /\ declared_forward_args(builder)
    /\ ~ret.node.forward

(* The other direction, and the part of the claim that holds: the scope  *)
(* that called or inherited declare_forward_args has it declared, and    *)
(* assignments and pattern variables never change the answer.            *)
C40_DeclaredWhereForwarded ==
    ret.node.forward => declared_forward_args(builder)

C40_LocalsKeepForwardArgs ==
    (ret.called /\ ret.op \in {"assignable", "match_var"}) =>
        declared_forward_args(builder) = declared_forward_args(ret.pre)

C40_LocalDeclared ==
    /\ ret.called /\ ret.op \in {"assignable", "match_var"} /\ ret.ok
    /\ builder.variables # ret.pre.variables
    /\ ret.node.forward
    /\ builder.stack # <<>>



====
